---- MODULE Spec2Model ----
(***************************************************************************)
(* UniCode / UniGrade: the remote-backed Course Tree Store.                *)
(*                                                                         *)
(* The model has three parts:                                              *)
(*   - the relational store behind the Express routes (tables courses,     *)
(*     academic_years, modules, assessments with their foreign keys),      *)
(*   - the route handlers of registerRoutes,                               *)
(*   - the CourseProvider of lib/CourseContext.tsx: the in-memory tree,    *)
(*     the operations it exposes and the continuation each of them runs    *)
(*     when its response arrives.                                          *)
(* Requests in flight are kept in net; a request is issued by a client     *)
(* call, processed by the server, and delivered to the client's            *)
(* continuation, so that calls overlap as the asynchronous code allows.    *)
(***************************************************************************)
EXTENDS Integers, Sequences, FiniteSets, TLC

VARIABLES
    db,           \* the store: [courses, years, modules, assessments], sets of rows
    nextId,       \* the next id the store generates (gen_random_uuid: never reused)
    user,         \* AuthContext user (NoUser when signed out)
    course,       \* CourseProvider state `course` (nullCourse when null)
    isLoading,    \* CourseProvider state `isLoading`
    net,          \* requests in flight
    ncalls,       \* number of client calls made in this run (numbers the requests)
    lastOp,       \* name of the most recent client call
    removedYears, \* ids removeYear has been applied to (history)
    oneAtATime,   \* TRUE when the screens start a call only after the last one settled
    textInput,    \* the text typed into the field a screen is editing
    alert,        \* title of the last Alert.alert a screen raised ("none" before any)
    calc          \* a grade calculation: the function, its argument and its result

vars == <<db, nextId, user, course, isLoading, net, ncalls, lastOp, removedYears,
          oneAtATime, textInput, alert, calc>>

\* what the store operations leave alone: the screens' fields and the calculator
aside == <<textInput, alert, calc>>

----------------------------------------------------------------------------
(* Bounds of the exploration *)

MaxCalls == 2
MaxInFlight == 2

----------------------------------------------------------------------------
(* Values *)

\* number | null fields (targetGrade, grade) hold null as a value outside 0..100
null == -1

Users == {"u1", "u2"}
NoUser == "none"

\* the value of `course` (and of a JSON body) when it is null
nullCourse == [isNull |-> TRUE]

\* no calculation is on display
NoCalc == [fn |-> "none"]

\* the body of a response that carries only {message: ...}
msgBody == [message |-> TRUE]

UniInputs == {"uniB"}
TitleInputs == {"titleB"}
\* createNewCourse takes any number of years; one year keeps the trees small
NumYearsInputs == {1}
WeightInputs == {50}
TargetInputs == {null, 70}
ModuleNameInputs == {"modB"}
CreditInputs == {20}
AssessmentNameInputs == {"asmtA"}
AssessmentWeightInputs == {50}
GradeInputs == {80}

\* `Year ${n}` (template literal of the routes and of handleAddYear)
YearLabel(n) == <<"Year 1", "Year 2", "Year 3", "Year 4", "Year 5", "Year 6",
                  "Year 7", "Year 8">>[n]

\* JavaScript `x || d` on a number: 0 (and undefined/NaN) is falsy
OrDefault(x, d) == IF x = 0 THEN d ELSE x

\* faulty variant: Math.floor in place of Math.round
RoundDown(a, b) == a \div b

\* Math.round(a / b) for a >= 0, b > 0: rounds half up
RoundDiv(a, b) == (2 * a + b) \div (2 * b)

----------------------------------------------------------------------------
(* The store *)

EmptyDb == [courses |-> {}, years |-> {}, modules |-> {}, assessments |-> {}]

CourseRow(id, uid, uni, title, target) ==
    [id |-> id, userId |-> uid, universityName |-> uni, courseTitle |-> title,
     targetGrade |-> target]

YearRow(id, courseId, label, yearNumber, weight) ==
    [id |-> id, courseId |-> courseId, label |-> label, yearNumber |-> yearNumber,
     weight |-> weight, targetGrade |-> null]

ModuleRow(id, yearId, name, credits) ==
    [id |-> id, yearId |-> yearId, name |-> name, credits |-> credits,
     targetGrade |-> null]

AssessmentRow(id, moduleId, name, weight) ==
    [id |-> id, moduleId |-> moduleId, name |-> name, weight |-> weight,
     grade |-> null, completed |-> FALSE]

Ids(rows) == {r.id : r \in rows}

\* faulty variant: foreign keys declared without ON DELETE CASCADE
NoCascade(d) == d

\* ON DELETE CASCADE: rows whose parent is gone go with it, level by level
Cascade(d) ==
    LET ys == {y \in d.years : y.courseId \in Ids(d.courses)}
        ms == {m \in d.modules : m.yearId \in Ids(ys)}
        as == {a \in d.assessments : a.moduleId \in Ids(ms)}
    IN  [courses |-> d.courses, years |-> ys, modules |-> ms, assessments |-> as]

\* rows in ascending order of field f, ties in order of insertion (id)
RECURSIVE SortBy(_, _)
SortBy(rows, f) ==
    IF rows = {} THEN <<>>
    ELSE LET r == CHOOSE x \in rows :
                    \A q \in rows : x[f] < q[f] \/ (x[f] = q[f] /\ x.id <= q.id)
         IN  <<r>> \o SortBy(rows \ {r}, f)

----------------------------------------------------------------------------
(* JSON trees, as the routes build them and the client keeps them *)

ModuleNode(m, assts) ==
    [id |-> m.id, yearId |-> m.yearId, name |-> m.name, credits |-> m.credits,
     targetGrade |-> m.targetGrade, assessments |-> assts]

YearNode(y, mods) ==
    [id |-> y.id, courseId |-> y.courseId, label |-> y.label,
     yearNumber |-> y.yearNumber, weight |-> y.weight,
     targetGrade |-> y.targetGrade, modules |-> mods]

CourseNode(c, years) ==
    [id |-> c.id, userId |-> c.userId, universityName |-> c.universityName,
     courseTitle |-> c.courseTitle, targetGrade |-> c.targetGrade, years |-> years]

MapSeq(s, Op(_)) == [i \in 1..Len(s) |-> Op(s[i])]

FilterSeq(s, Keep(_)) == SelectSeq(s, Keep)

\* GET /api/course: the body for session user uid
ModsWithAssessments(d, y) ==
    LET Node(m) == ModuleNode(m, SortBy({a \in d.assessments : a.moduleId = m.id}, "id"))
    IN  MapSeq(SortBy({m \in d.modules : m.yearId = y.id}, "id"), Node)

YearsWithModules(d, c) ==
    LET Node(y) == YearNode(y, ModsWithAssessments(d, y))
    IN  MapSeq(SortBy({y \in d.years : y.courseId = c.id}, "yearNumber"), Node)

GetCourseBody(d, uid) ==
    LET mine == {c \in d.courses : c.userId = uid}
    IN  IF mine = {} THEN nullCourse
        ELSE LET c == SortBy(mine, "id")[1] IN CourseNode(c, YearsWithModules(d, c))

----------------------------------------------------------------------------
(* Requests *)

NoIds == [courseId |-> 0, yearId |-> 0, moduleId |-> 0, assessmentId |-> 0]

\* a request as it leaves the client: the session cookie identifies uid
NewReq(op, ids, payload) ==
    [seq |-> ncalls + 1, op |-> op, uid |-> user,
     courseId |-> ids.courseId, yearId |-> ids.yearId, moduleId |-> ids.moduleId,
     assessmentId |-> ids.assessmentId, payload |-> payload,
     stage |-> "sent", status |-> 0, body |-> msgBody, pc |-> 0, tmp |-> 0]

Has(rec, f) == f \in DOMAIN rec

\* res.status(status).json(body)
Respond(r, status, body) ==
    [r EXCEPT !.stage = "responded", !.status = status, !.body = body]

\* Response.ok of fetch: a 2xx status
ResOk(status) == status >= 200 /\ status <= 299

\* apiRequest (lib/query-client, not among the sources): resolves with the
\* response when it is 2xx and throws otherwise, as it throws on a network error
ApiRequestThrows(status) == ~ResOk(status)

----------------------------------------------------------------------------
(* CourseProvider: the state updaters passed to setCourse *)

\* faulty variant: the guard is missing
NotLoadedIgnored(c) == FALSE

\* `if (!course) return;`
NotLoaded(c) == c = nullCourse

YearsOf(c) == IF c = nullCourse THEN {} ELSE {c.years[i] : i \in 1..Len(c.years)}
ModulesOfYear(y) == {y.modules[i] : i \in 1..Len(y.modules)}
AssessmentsOfModule(m) == {m.assessments[i] : i \in 1..Len(m.assessments)}
ModulesOf(c) == UNION {ModulesOfYear(y) : y \in YearsOf(c)}
AssessmentsOf(c) == UNION {AssessmentsOfModule(m) : m \in ModulesOf(c)}

\* { ...y, ...updates }
MergeYear(y, u) ==
    [y EXCEPT !.label = IF Has(u, "label") THEN u.label ELSE @,
              !.weight = IF Has(u, "weight") THEN u.weight ELSE @,
              !.targetGrade = IF Has(u, "targetGrade") THEN u.targetGrade ELSE @]

\* { ...m, ...updates }
MergeModule(m, u) ==
    [m EXCEPT !.name = IF Has(u, "name") THEN u.name ELSE @,
              !.credits = IF Has(u, "credits") THEN u.credits ELSE @,
              !.targetGrade = IF Has(u, "targetGrade") THEN u.targetGrade ELSE @]

\* { ...a, ...updates }
MergeAssessment(a, u) ==
    [a EXCEPT !.name = IF Has(u, "name") THEN u.name ELSE @,
              !.weight = IF Has(u, "weight") THEN u.weight ELSE @,
              !.grade = IF Has(u, "grade") THEN u.grade ELSE @,
              !.completed = IF Has(u, "completed") THEN u.completed ELSE @]

\* prev.years.map((y) => y.id === yearId ? F(y) : y)
MapYear(prev, yearId, F(_)) ==
    LET G(y) == IF y.id = yearId THEN F(y) ELSE y
    IN  [prev EXCEPT !.years = MapSeq(@, G)]

\* y.modules.map((m) => m.id === moduleId ? F(m) : m) inside year yearId
MapModule(prev, yearId, moduleId, F(_)) ==
    LET G(m) == IF m.id = moduleId THEN F(m) ELSE m
        H(y) == [y EXCEPT !.modules = MapSeq(@, G)]
    IN  MapYear(prev, yearId, H)

SetCourseInfoUpdater(prev, uni, title) ==
    IF prev = nullCourse THEN nullCourse
    ELSE [prev EXCEPT !.universityName = uni, !.courseTitle = title]

SetCourseTargetUpdater(prev, target) ==
    IF prev = nullCourse THEN nullCourse ELSE [prev EXCEPT !.targetGrade = target]

AddYearUpdater(prev, year) ==
    IF prev = nullCourse THEN nullCourse
    ELSE [prev EXCEPT !.years = Append(@, year)]

UpdateYearUpdater(prev, yearId, updates) ==
    IF prev = nullCourse THEN nullCourse
    ELSE LET F(y) == MergeYear(y, updates) IN MapYear(prev, yearId, F)

RemoveYearUpdater(prev, yearId) ==
    IF prev = nullCourse THEN nullCourse
    ELSE LET Keep(y) == y.id # yearId
         IN  [prev EXCEPT !.years = FilterSeq(@, Keep)]

AddModuleUpdater(prev, yearId, mod) ==
    IF prev = nullCourse THEN nullCourse
    ELSE LET F(y) == [y EXCEPT !.modules = Append(@, mod)]
         IN  MapYear(prev, yearId, F)

UpdateModuleUpdater(prev, yearId, moduleId, updates) ==
    IF prev = nullCourse THEN nullCourse
    ELSE LET F(m) == MergeModule(m, updates)
         IN  MapModule(prev, yearId, moduleId, F)

\* faulty variant: the filter keeps the module it should drop
RemoveModuleUpdaterInverted(prev, yearId, moduleId) ==
    IF prev = nullCourse THEN nullCourse
    ELSE LET Keep(m) == m.id = moduleId
             F(y) == [y EXCEPT !.modules = FilterSeq(@, Keep)]
         IN  MapYear(prev, yearId, F)

RemoveModuleUpdater(prev, yearId, moduleId) ==
    IF prev = nullCourse THEN nullCourse
    ELSE LET Keep(m) == m.id # moduleId
             F(y) == [y EXCEPT !.modules = FilterSeq(@, Keep)]
         IN  MapYear(prev, yearId, F)

AddAssessmentUpdater(prev, yearId, moduleId, assessment) ==
    IF prev = nullCourse THEN nullCourse
    ELSE LET F(m) == [m EXCEPT !.assessments = Append(@, assessment)]
         IN  MapModule(prev, yearId, moduleId, F)

UpdateAssessmentUpdater(prev, yearId, moduleId, assessmentId, updates) ==
    IF prev = nullCourse THEN nullCourse
    ELSE LET G(a) == IF a.id = assessmentId THEN MergeAssessment(a, updates) ELSE a
             F(m) == [m EXCEPT !.assessments = MapSeq(@, G)]
         IN  MapModule(prev, yearId, moduleId, F)

RemoveAssessmentUpdater(prev, yearId, moduleId, assessmentId) ==
    IF prev = nullCourse THEN nullCourse
    ELSE LET Keep(a) == a.id # assessmentId
             F(m) == [m EXCEPT !.assessments = FilterSeq(@, Keep)]
         IN  MapModule(prev, yearId, moduleId, F)

----------------------------------------------------------------------------
(* registerRoutes: the handlers.  A handler that awaits one statement, or   *)
(* whose statements touch one row, is one step; POST /api/course and        *)
(* POST /api/years/:courseId/add take one step per awaited statement, so    *)
(* that other requests are served between their reads and their writes.     *)

\* replace r in net by its next position
Step(r, r2) ==
    /\ net' = (net \ {r}) \cup {r2}
    /\ UNCHANGED <<user, course, isLoading, ncalls, lastOp, removedYears, oneAtATime, aside>>

\* requireAuth: no session user
RequireAuthReject(r) ==
    /\ r.stage = "sent"
    /\ r.uid = NoUser
    /\ Step(r, Respond(r, 401, msgBody))
    /\ UNCHANGED <<db, nextId>>

\* GET /api/course
GetCourse(r) ==
    /\ r.op = "fetchCourse" /\ r.stage = "sent" /\ r.uid # NoUser
    /\ Step(r, Respond(r, 200, GetCourseBody(db, r.uid)))
    /\ UNCHANGED <<db, nextId>>

\* const n = numYears || 3
NumYears(r) == OrDefault(r.payload.numYears, 3)

\* faulty variant: the table of default schedules is not consulted
WeightsEqualShares(n) == [i \in 1..n |-> RoundDiv(100, n)]

\* defaultWeights[n] || Array(n).fill(Math.round(100 / n))
Weights(n) ==
    IF n = 3 THEN <<0, 40, 60>>
    ELSE IF n = 4 THEN <<0, 20, 30, 50>>
    ELSE [i \in 1..n |-> RoundDiv(100, n)]

\* faulty variant: the insert is attempted without looking for a course
PostCourseCheckSkipped(r) ==
    /\ r.op = "createNewCourse" /\ r.stage = "sent" /\ r.uid # NoUser
    /\ Step(r, [r EXCEPT !.stage = "running", !.pc = 1])
    /\ UNCHANGED <<db, nextId>>

\* POST /api/course: select existing; 409 when the user has a course
PostCourseCheck(r) ==
    /\ r.op = "createNewCourse" /\ r.stage = "sent" /\ r.uid # NoUser
    /\ IF {c \in db.courses : c.userId = r.uid} # {}
       THEN Step(r, Respond(r, 409, msgBody))
       ELSE Step(r, [r EXCEPT !.stage = "running", !.pc = 1])
    /\ UNCHANGED <<db, nextId>>

\* POST /api/course: insert(courses).returning()
PostCourseInsert(r) ==
    /\ r.op = "createNewCourse" /\ r.stage = "running" /\ r.pc = 1
    /\ LET row == CourseRow(nextId, r.uid, r.payload.universityName,
                            r.payload.courseTitle, null)
       IN  /\ db' = [db EXCEPT !.courses = @ \cup {row}]
           /\ Step(r, [r EXCEPT !.pc = 2, !.tmp = row])
    /\ nextId' = nextId + 1

\* POST /api/course: one iteration of the loop inserting the years; the
\* insert violates the foreign key when the course row is gone
PostCourseInsertYear(r) ==
    /\ r.op = "createNewCourse" /\ r.stage = "running"
    /\ r.pc >= 2 /\ r.pc <= NumYears(r) + 1
    /\ LET i == r.pc - 1
       IN  IF r.tmp.id \in Ids(db.courses)
           THEN /\ db' = [db EXCEPT !.years = @ \cup
                            {YearRow(nextId, r.tmp.id, YearLabel(i), i,
                                     Weights(NumYears(r))[i])}]
                /\ nextId' = nextId + 1
                /\ Step(r, [r EXCEPT !.pc = @ + 1])
           ELSE /\ Step(r, Respond(r, 500, msgBody))
                /\ UNCHANGED <<db, nextId>>

\* faulty variant: the course row is returned as inserted, without its years
PostCourseRespondBare(r) ==
    /\ r.op = "createNewCourse" /\ r.stage = "running"
    /\ r.pc = NumYears(r) + 2
    /\ Step(r, Respond(r, 201, CourseNode(r.tmp, <<>>)))
    /\ UNCHANGED <<db, nextId>>

\* POST /api/course: select the years and answer 201
PostCourseRespond(r) ==
    /\ r.op = "createNewCourse" /\ r.stage = "running"
    /\ r.pc = NumYears(r) + 2
    /\ LET Node(y) == YearNode(y, <<>>)
           years == SortBy({y \in db.years : y.courseId = r.tmp.id}, "yearNumber")
       IN  Step(r, Respond(r, 201, CourseNode(r.tmp, MapSeq(years, Node))))
    /\ UNCHANGED <<db, nextId>>

\* faulty variant: `targetGrade: targetGrade ?? null` written on every update
SetCourseOverwriting(row, b) ==
    [row EXCEPT !.universityName = IF Has(b, "universityName") THEN b.universityName ELSE @,
                !.courseTitle = IF Has(b, "courseTitle") THEN b.courseTitle ELSE @,
                !.targetGrade = IF Has(b, "targetGrade") THEN b.targetGrade ELSE null]

\* the `updates` object of PUT /api/course, applied to the row
SetCourse(row, b) ==
    [row EXCEPT !.universityName = IF Has(b, "universityName") THEN b.universityName ELSE @,
                !.courseTitle = IF Has(b, "courseTitle") THEN b.courseTitle ELSE @,
                !.targetGrade = IF Has(b, "targetGrade") THEN b.targetGrade ELSE @]

\* PUT /api/course
PutCourse(r) ==
    /\ r.op \in {"setCourseInfo", "setCourseTarget"} /\ r.stage = "sent"
    /\ r.uid # NoUser
    /\ LET mine == {c \in db.courses : c.userId = r.uid}
       IN  IF mine = {}
           THEN /\ Step(r, Respond(r, 404, msgBody))
                /\ db' = db
           ELSE LET c == SortBy(mine, "id")[1]
                IN  /\ db' = [db EXCEPT !.courses =
                                {IF x.id = c.id THEN SetCourse(x, r.payload) ELSE x : x \in @}]
                    /\ Step(r, Respond(r, 200, msgBody))
    /\ UNCHANGED nextId

\* DELETE /api/course
DeleteCourse(r) ==
    /\ r.op = "resetCourse" /\ r.stage = "sent" /\ r.uid # NoUser
    /\ db' = Cascade([db EXCEPT !.courses = {c \in @ : c.userId # r.uid}])
    /\ Step(r, Respond(r, 200, msgBody))
    /\ UNCHANGED nextId

\* the `updates` object of PUT /api/years/:yearId
SetYear(row, b) ==
    [row EXCEPT !.label = IF Has(b, "label") THEN b.label ELSE @,
                !.weight = IF Has(b, "weight") THEN b.weight ELSE @,
                !.targetGrade = IF Has(b, "targetGrade") THEN b.targetGrade ELSE @]

\* PUT /api/years/:yearId
PutYear(r) ==
    /\ r.op = "updateYear" /\ r.stage = "sent" /\ r.uid # NoUser
    /\ db' = [db EXCEPT !.years =
                {IF y.id = r.yearId THEN SetYear(y, r.payload) ELSE y : y \in @}]
    /\ Step(r, Respond(r, 200, msgBody))
    /\ UNCHANGED nextId

\* POST /api/years/:yearId/modules
PostModule(r) ==
    /\ r.op = "addModule" /\ r.stage = "sent" /\ r.uid # NoUser
    /\ IF r.yearId \in Ids(db.years)
       THEN LET row == ModuleRow(nextId, r.yearId, r.payload.name,
                                 OrDefault(r.payload.credits, 20))
            IN  /\ db' = [db EXCEPT !.modules = @ \cup {row}]
                /\ nextId' = nextId + 1
                /\ Step(r, Respond(r, 201, ModuleNode(row, <<>>)))
       ELSE /\ Step(r, Respond(r, 500, msgBody))
            /\ UNCHANGED <<db, nextId>>

\* the `updates` object of PUT /api/modules/:moduleId
SetModule(row, b) ==
    [row EXCEPT !.name = IF Has(b, "name") THEN b.name ELSE @,
                !.credits = IF Has(b, "credits") THEN b.credits ELSE @,
                !.targetGrade = IF Has(b, "targetGrade") THEN b.targetGrade ELSE @]

\* PUT /api/modules/:moduleId
PutModule(r) ==
    /\ r.op = "updateModule" /\ r.stage = "sent" /\ r.uid # NoUser
    /\ db' = [db EXCEPT !.modules =
                {IF m.id = r.moduleId THEN SetModule(m, r.payload) ELSE m : m \in @}]
    /\ Step(r, Respond(r, 200, msgBody))
    /\ UNCHANGED nextId

\* DELETE /api/modules/:moduleId
DeleteModule(r) ==
    /\ r.op = "removeModule" /\ r.stage = "sent" /\ r.uid # NoUser
    /\ db' = Cascade([db EXCEPT !.modules = {m \in @ : m.id # r.moduleId}])
    /\ Step(r, Respond(r, 200, msgBody))
    /\ UNCHANGED nextId

\* POST /api/modules/:moduleId/assessments
PostAssessment(r) ==
    /\ r.op = "addAssessment" /\ r.stage = "sent" /\ r.uid # NoUser
    /\ IF r.moduleId \in Ids(db.modules)
       THEN LET row == AssessmentRow(nextId, r.moduleId, r.payload.name,
                                     r.payload.weight)
            IN  /\ db' = [db EXCEPT !.assessments = @ \cup {row}]
                /\ nextId' = nextId + 1
                /\ Step(r, Respond(r, 201, row))
       ELSE /\ Step(r, Respond(r, 500, msgBody))
            /\ UNCHANGED <<db, nextId>>

\* faulty variant: `completed` is left out of the updates
SetAssessmentGradeOnly(row, b) ==
    [row EXCEPT !.name = IF Has(b, "name") THEN b.name ELSE @,
                !.weight = IF Has(b, "weight") THEN b.weight ELSE @,
                !.grade = IF Has(b, "grade") THEN b.grade ELSE @]

\* the `updates` object of PUT /api/assessments/:assessmentId
SetAssessment(row, b) ==
    [row EXCEPT !.name = IF Has(b, "name") THEN b.name ELSE @,
                !.weight = IF Has(b, "weight") THEN b.weight ELSE @,
                !.grade = IF Has(b, "grade") THEN b.grade ELSE @,
                !.completed = IF Has(b, "completed") THEN b.completed ELSE @]

\* PUT /api/assessments/:assessmentId
PutAssessment(r) ==
    /\ r.op = "updateAssessment" /\ r.stage = "sent" /\ r.uid # NoUser
    /\ db' = [db EXCEPT !.assessments =
                {IF a.id = r.assessmentId THEN SetAssessment(a, r.payload) ELSE a : a \in @}]
    /\ Step(r, Respond(r, 200, msgBody))
    /\ UNCHANGED nextId

\* DELETE /api/assessments/:assessmentId
DeleteAssessment(r) ==
    /\ r.op = "removeAssessment" /\ r.stage = "sent" /\ r.uid # NoUser
    /\ db' = [db EXCEPT !.assessments = {a \in @ : a.id # r.assessmentId}]
    /\ Step(r, Respond(r, 200, msgBody))
    /\ UNCHANGED nextId

\* POST /api/years/:courseId/add: select the existing years
AddYearSelect(r) ==
    /\ r.op = "addYear" /\ r.stage = "sent" /\ r.uid # NoUser
    /\ Step(r, [r EXCEPT !.stage = "running",
                         !.tmp = [n |-> Cardinality({y \in db.years : y.courseId = r.courseId})]])
    /\ UNCHANGED <<db, nextId>>

\* POST /api/years/:courseId/add: insert with yearNumber = existingYears.length + 1
AddYearInsert(r) ==
    /\ r.op = "addYear" /\ r.stage = "running"
    /\ IF r.courseId \in Ids(db.courses)
       THEN LET yearNumber == r.tmp.n + 1
                row == YearRow(nextId, r.courseId,
                               IF r.payload.label = "" THEN YearLabel(yearNumber)
                               ELSE r.payload.label,
                               yearNumber, OrDefault(r.payload.weight, 0))
            IN  /\ db' = [db EXCEPT !.years = @ \cup {row}]
                /\ nextId' = nextId + 1
                /\ Step(r, Respond(r, 201, YearNode(row, <<>>)))
       ELSE /\ Step(r, Respond(r, 500, msgBody))
            /\ UNCHANGED <<db, nextId>>

\* a statement throws (the handler's catch answers 500); what the handler
\* had written before stays written, no handler runs in a transaction
DbError(r) ==
    /\ r.stage \in {"sent", "running"} /\ r.uid # NoUser
    /\ Step(r, Respond(r, 500, msgBody))
    /\ UNCHANGED <<db, nextId>>

\* the response never reaches the client: fetch rejects (status 0 stands
\* for "no response"); the server has done what it did
NetworkError(r) ==
    /\ r.stage = "responded" /\ r.status # 0
    /\ Step(r, Respond(r, 0, msgBody))
    /\ UNCHANGED <<db, nextId>>

Server(r) ==
    \/ RequireAuthReject(r)
    \/ GetCourse(r)
    \/ PostCourseCheck(r)
    \/ PostCourseInsert(r)
    \/ PostCourseInsertYear(r)
    \/ PostCourseRespond(r)
    \/ PutCourse(r)
    \/ DeleteCourse(r)
    \/ PutYear(r)
    \/ PostModule(r)
    \/ PutModule(r)
    \/ DeleteModule(r)
    \/ PostAssessment(r)
    \/ PutAssessment(r)
    \/ DeleteAssessment(r)
    \/ AddYearSelect(r)
    \/ AddYearInsert(r)
    \/ DbError(r)
    \/ NetworkError(r)

----------------------------------------------------------------------------
(* CourseProvider: what each operation does when its response arrives.      *)
(* r.status = 0 is a rejected fetch; apiRequest throws on it and on every   *)
(* non-2xx status, and the operation's catch only logs.                     *)

\* fetchCourse: res.ok ? setCourse(data) : setCourse(null); catch: setCourse(null)
OnFetchCourse(prev, r) ==
    IF r.status = 0 THEN nullCourse
    ELSE IF ResOk(r.status) THEN r.body
    ELSE nullCourse

OnCreateNewCourse(prev, r) ==
    IF ApiRequestThrows(r.status) THEN prev ELSE r.body

OnSetCourseInfo(prev, r) ==
    IF ApiRequestThrows(r.status) THEN prev
    ELSE SetCourseInfoUpdater(prev, r.payload.universityName, r.payload.courseTitle)

OnSetCourseTarget(prev, r) ==
    IF ApiRequestThrows(r.status) THEN prev
    ELSE SetCourseTargetUpdater(prev, r.payload.targetGrade)

OnAddYear(prev, r) ==
    IF ApiRequestThrows(r.status) THEN prev ELSE AddYearUpdater(prev, r.body)

OnUpdateYear(prev, r) ==
    IF ApiRequestThrows(r.status) THEN prev
    ELSE UpdateYearUpdater(prev, r.yearId, r.payload)

\* faulty variant: the new module keeps an id made up by the client
OnAddModuleLocalId(prev, r) ==
    IF ApiRequestThrows(r.status) THEN prev
    ELSE AddModuleUpdater(prev, r.yearId, [r.body EXCEPT !.id = 0])

OnAddModule(prev, r) ==
    IF ApiRequestThrows(r.status) THEN prev
    ELSE AddModuleUpdater(prev, r.yearId, r.body)

\* faulty variant: the update is applied whatever the outcome of the request
OnUpdateModuleOptimistic(prev, r) ==
    UpdateModuleUpdater(prev, r.yearId, r.moduleId, r.payload)

OnUpdateModule(prev, r) ==
    IF ApiRequestThrows(r.status) THEN prev
    ELSE UpdateModuleUpdater(prev, r.yearId, r.moduleId, r.payload)

OnRemoveModule(prev, r) ==
    IF ApiRequestThrows(r.status) THEN prev
    ELSE RemoveModuleUpdater(prev, r.yearId, r.moduleId)

OnAddAssessment(prev, r) ==
    IF ApiRequestThrows(r.status) THEN prev
    ELSE AddAssessmentUpdater(prev, r.yearId, r.moduleId, r.body)

OnUpdateAssessment(prev, r) ==
    IF ApiRequestThrows(r.status) THEN prev
    ELSE UpdateAssessmentUpdater(prev, r.yearId, r.moduleId, r.assessmentId, r.payload)

OnRemoveAssessment(prev, r) ==
    IF ApiRequestThrows(r.status) THEN prev
    ELSE RemoveAssessmentUpdater(prev, r.yearId, r.moduleId, r.assessmentId)

OnResetCourse(prev, r) ==
    IF ApiRequestThrows(r.status) THEN prev ELSE nullCourse

Continuation(prev, r) ==
    CASE r.op = "fetchCourse" -> OnFetchCourse(prev, r)
      [] r.op = "createNewCourse" -> OnCreateNewCourse(prev, r)
      [] r.op = "setCourseInfo" -> OnSetCourseInfo(prev, r)
      [] r.op = "setCourseTarget" -> OnSetCourseTarget(prev, r)
      [] r.op = "addYear" -> OnAddYear(prev, r)
      [] r.op = "updateYear" -> OnUpdateYear(prev, r)
      [] r.op = "addModule" -> OnAddModule(prev, r)
      [] r.op = "updateModule" -> OnUpdateModule(prev, r)
      [] r.op = "removeModule" -> OnRemoveModule(prev, r)
      [] r.op = "addAssessment" -> OnAddAssessment(prev, r)
      [] r.op = "updateAssessment" -> OnUpdateAssessment(prev, r)
      [] r.op = "removeAssessment" -> OnRemoveAssessment(prev, r)
      [] r.op = "resetCourse" -> OnResetCourse(prev, r)

\* the awaited request settles and the rest of the operation runs
Deliver(r) ==
    /\ r.stage = "responded"
    /\ net' = net \ {r}
    /\ course' = Continuation(course, r)
    /\ isLoading' = IF r.op = "fetchCourse" THEN FALSE ELSE isLoading
    /\ UNCHANGED <<db, nextId, user, ncalls, lastOp, removedYears, oneAtATime, aside>>

----------------------------------------------------------------------------
(* CourseProvider: the calls *)

\* a call of the context value by a screen; screens render once the first
\* effect has ended loading
Called(name) ==
    /\ ~isLoading
    /\ oneAtATime => net = {}
    /\ ncalls < MaxCalls
    /\ ncalls' = ncalls + 1
    /\ lastOp' = name

\* apiRequest / fetch: the request leaves
Send(req) ==
    /\ Cardinality(net) < MaxInFlight
    /\ net' = net \cup {req}

\* an operation that opens with `if (!course) return;` and awaits apiRequest
Request(name, op, ids, payload) ==
    /\ Called(name)
    /\ IF NotLoaded(course) THEN net' = net ELSE Send(NewReq(op, ids, payload))
    /\ UNCHANGED <<db, nextId, user, course, isLoading, removedYears, oneAtATime>>

\* the same operation called from anywhere but a validating form handler
Mutation(name, op, ids, payload) ==
    /\ Request(name, op, ids, payload)
    /\ UNCHANGED aside

\* ids a screen can pass: those of the tree it renders
YearChoices ==
    IF course = nullCourse THEN {NoIds}
    ELSE {[NoIds EXCEPT !.yearId = y.id] : y \in YearsOf(course)}

ModuleChoices ==
    IF course = nullCourse THEN {NoIds}
    ELSE UNION {{[NoIds EXCEPT !.yearId = y.id, !.moduleId = m.id] :
                    m \in ModulesOfYear(y)} : y \in YearsOf(course)}

AssessmentChoices ==
    IF course = nullCourse THEN {NoIds}
    ELSE UNION {UNION {{[NoIds EXCEPT !.yearId = y.id, !.moduleId = m.id,
                                      !.assessmentId = a.id] :
                           a \in AssessmentsOfModule(m)} :
                       m \in ModulesOfYear(y)} : y \in YearsOf(course)}

\* faulty variant: the early return of fetchCourse leaves isLoading as it is
MountStillLoading ==
    /\ isLoading
    /\ user = NoUser
    /\ course' = nullCourse
    /\ UNCHANGED <<db, nextId, user, isLoading, net, ncalls, lastOp, removedYears, oneAtATime, aside>>

\* useEffect(() => { fetchCourse(); }) on mount: there is no user yet
Mount ==
    /\ isLoading
    /\ user = NoUser
    /\ course' = nullCourse
    /\ isLoading' = FALSE
    /\ UNCHANGED <<db, nextId, user, net, ncalls, lastOp, removedYears, oneAtATime, aside>>

\* setUser(data) of checkAuth/login/register; the effect runs fetchCourse
Login(u) ==
    /\ Called("login")
    /\ user = NoUser
    /\ user' = u
    /\ Send([NewReq("fetchCourse", NoIds, msgBody) EXCEPT !.uid = u])
    /\ UNCHANGED <<db, nextId, course, isLoading, removedYears, oneAtATime, aside>>

\* setUser(null) of logout; the effect runs fetchCourse, which clears the course
Logout ==
    /\ Called("logout")
    /\ user # NoUser
    /\ user' = NoUser
    /\ course' = nullCourse
    /\ isLoading' = FALSE
    /\ UNCHANGED <<db, nextId, net, removedYears, oneAtATime, aside>>

RefreshCourse ==
    /\ Called("refreshCourse")
    /\ IF user = NoUser
       THEN /\ course' = nullCourse
            /\ net' = net
       ELSE /\ Send(NewReq("fetchCourse", NoIds, msgBody))
            /\ course' = course
    /\ isLoading' = IF user = NoUser THEN FALSE ELSE isLoading
    /\ UNCHANGED <<db, nextId, user, removedYears, oneAtATime, aside>>

CreateNewCourse(uni, title, numYears) ==
    /\ Called("createNewCourse")
    /\ Send(NewReq("createNewCourse", NoIds,
                   [universityName |-> uni, courseTitle |-> title, numYears |-> numYears]))
    /\ UNCHANGED <<db, nextId, user, course, isLoading, removedYears, oneAtATime, aside>>

SetCourseInfo(uni, title) ==
    Mutation("setCourseInfo", "setCourseInfo", NoIds,
             [universityName |-> uni, courseTitle |-> title])

AddYear(label, weight) ==
    Mutation("addYear", "addYear",
             [NoIds EXCEPT !.courseId = IF course = nullCourse THEN 0 ELSE course.id],
             [label |-> label, weight |-> weight])

UpdateYear(ids, updates) == Mutation("updateYear", "updateYear", ids, updates)

RemoveYear(ids) ==
    /\ Called("removeYear")
    /\ course' = IF NotLoaded(course) THEN course
                 ELSE RemoveYearUpdater(course, ids.yearId)
    /\ removedYears' = IF NotLoaded(course) THEN removedYears
                       ELSE removedYears \cup {ids.yearId}
    /\ UNCHANGED <<db, nextId, user, isLoading, net, oneAtATime, aside>>

AddModule(ids, name, credits) ==
    Mutation("addModule", "addModule", ids, [name |-> name, credits |-> credits])

UpdateModule(ids, updates) == Mutation("updateModule", "updateModule", ids, updates)

RemoveModule(ids) == Mutation("removeModule", "removeModule", ids, msgBody)

AddAssessment(ids, name, weight) ==
    Mutation("addAssessment", "addAssessment", ids, [name |-> name, weight |-> weight])

UpdateAssessment(ids, updates) ==
    Mutation("updateAssessment", "updateAssessment", ids, updates)

RemoveAssessment(ids) == Mutation("removeAssessment", "removeAssessment", ids, msgBody)

SetModuleTarget(ids, target) ==
    Mutation("setModuleTarget", "updateModule", ids, [targetGrade |-> target])

SetYearTarget(ids, target) ==
    Mutation("setYearTarget", "updateYear", ids, [targetGrade |-> target])

SetCourseTarget(target) ==
    Mutation("setCourseTarget", "setCourseTarget", NoIds, [targetGrade |-> target])

ResetCourse ==
    /\ Called("resetCourse")
    /\ Send(NewReq("resetCourse", NoIds, msgBody))
    /\ UNCHANGED <<db, nextId, user, course, isLoading, removedYears, oneAtATime, aside>>

\* what the settings screen passes: one field edited, the other as rendered
CourseInfoChoices ==
    IF course = nullCourse THEN {<<"uniA", "titleA">>}
    ELSE {<<u, course.courseTitle>> : u \in UniInputs}
         \cup {<<course.universityName, t>> : t \in TitleInputs}

\* handleAddYear: `Year ${course.years.length + 1}`
NextYearLabel == IF course = nullCourse THEN "" ELSE YearLabel(Len(course.years) + 1)

----------------------------------------------------------------------------
(* The system *)

\* the store as earlier sessions left it: u1 created a course of one year
\* (createNewCourse("uniA", "titleA", 1)) and added a module and an
\* assessment to it; u2 has no course
PopulatedDb ==
    [courses |-> {CourseRow(1, "u1", "uniA", "titleA", null)},
     years |-> {YearRow(2, 1, YearLabel(1), 1, 100)},
     modules |-> {ModuleRow(3, 2, "modA", 20)},
     assessments |-> {AssessmentRow(4, 3, "asmtA", 50)}]

\* the provider as constructed: no user yet, loading
Fresh ==
    /\ user = NoUser
    /\ course = nullCourse
    /\ isLoading = TRUE

\* the provider once u has signed in and the fetch of the mount effect has
\* answered (Mount, Login(u), GetCourse, Deliver lead here from Fresh)
Session(u) ==
    /\ user = u
    /\ course = GetCourseBody(PopulatedDb, u)
    /\ isLoading = FALSE

Start ==
    /\ db = PopulatedDb
    /\ nextId = 5
    /\ Fresh \/ \E u \in Users : Session(u)
    /\ net = {}
    /\ ncalls = 0
    /\ lastOp = "none"
    /\ removedYears = {}
    /\ textInput = ""
    /\ alert = "none"
    /\ calc = NoCalc

\* calls may overlap
Init == Start /\ oneAtATime = FALSE

\* every call waits for the one before it to settle
SeqInit == Start /\ oneAtATime = TRUE

Next ==
    \/ Mount
    \/ \E u \in Users : Login(u)
    \/ Logout
    \/ RefreshCourse
    \/ \E n \in NumYearsInputs : CreateNewCourse("uniA", "titleA", n)
    \/ \E c \in CourseInfoChoices : SetCourseInfo(c[1], c[2])
    \/ AddYear(NextYearLabel, 0)
    \/ \E ids \in YearChoices, w \in WeightInputs : UpdateYear(ids, [weight |-> w])
    \/ \E ids \in YearChoices : RemoveYear(ids)
    \/ \E ids \in YearChoices, c \in CreditInputs :
          AddModule(ids, "modA", c)
    \/ \E ids \in ModuleChoices, n \in ModuleNameInputs : UpdateModule(ids, [name |-> n])
    \/ \E ids \in ModuleChoices : RemoveModule(ids)
    \/ \E ids \in ModuleChoices, n \in AssessmentNameInputs, w \in AssessmentWeightInputs :
          AddAssessment(ids, n, w)
    \/ \E ids \in AssessmentChoices, g \in GradeInputs :
          UpdateAssessment(ids, [grade |-> g, completed |-> TRUE])
    \/ \E ids \in AssessmentChoices : RemoveAssessment(ids)
    \/ \E ids \in ModuleChoices, t \in TargetInputs : SetModuleTarget(ids, t)
    \/ \E ids \in YearChoices, t \in TargetInputs : SetYearTarget(ids, t)
    \/ \E t \in TargetInputs : SetCourseTarget(t)
    \/ ResetCourse
    \/ \E r \in net : Server(r)
    \/ \E r \in net : Deliver(r)

Spec == Init /\ [][Next]_vars

SeqSpec == SeqInit /\ [][Next]_vars

----------------------------------------------------------------------------
(* Onboarding: a user without a course creates one and reads it back.  The  *)
(* count of years ranges over 0..MaxYearCount (0 is what `numYears || 3`    *)
(* treats as absent); the calls are made one at a time.                     *)

MaxYearCount == 6

YearCountInputs == 0..MaxYearCount

CreateInit ==
    /\ db = PopulatedDb
    /\ nextId = 5
    /\ user = "u2" /\ course = nullCourse /\ isLoading = FALSE
    /\ net = {}
    /\ ncalls = 0
    /\ lastOp = "none"
    /\ removedYears = {}
    /\ oneAtATime = TRUE
    /\ textInput = ""
    /\ alert = "none"
    /\ calc = NoCalc

CreateNext ==
    \/ \E n \in YearCountInputs : CreateNewCourse("uniA", "titleA", n)
    \/ RefreshCourse
    \/ \E r \in net : Server(r)
    \/ \E r \in net : Deliver(r)

CreateSpec == CreateInit /\ [][CreateNext]_vars

----------------------------------------------------------------------------
(* The forms: a text field, the handler behind its button, and the alert   *)

\* what a user can leave in a numeric text field
Texts == {"", "abc", "-5", "0", "100", "101"}

NaN == [nan |-> TRUE, num |-> 0]

Number(n) == [nan |-> FALSE, num |-> n]

\* parseFloat(text) and parseInt(text, 10): no leading digits gives NaN
ParseNumber(text) ==
    CASE text = "-5" -> Number(0 - 5)
      [] text = "0" -> Number(0)
      [] text = "100" -> Number(100)
      [] text = "101" -> Number(101)
      [] OTHER -> NaN

\* a faulty variant: the isNaN test is missing
InvalidPercentNaNAllowed(val) == val.num < 0 \/ val.num > 100

\* isNaN(val) || val < 0 || val > 100
InvalidPercent(val) == val.nan \/ val.num < 0 \/ val.num > 100

\* parseFloat(text) || 0
OrZero(val) == IF val.nan THEN Number(0) ELSE val

\* onChangeText of the field
TypeText(text) ==
    /\ course # nullCourse
    /\ textInput' = text
    /\ UNCHANGED <<db, nextId, user, course, isLoading, net, ncalls, lastOp,
                   removedYears, oneAtATime, alert, calc>>

\* Alert.alert(title, ...); return;
Refuse(title) ==
    /\ alert' = title
    /\ UNCHANGED <<db, nextId, user, course, isLoading, net, ncalls, lastOp,
                   removedYears, oneAtATime, textInput, calc>>

HandleSetGrade(ids) ==
    /\ course # nullCourse
    /\ LET val == ParseNumber(textInput)
       IN  IF InvalidPercent(val) THEN Refuse("Invalid Grade")
           ELSE /\ Request("updateAssessment", "updateAssessment", ids,
                           [grade |-> val.num, completed |-> TRUE])
                /\ textInput' = ""
                /\ UNCHANGED <<alert, calc>>

HandleSaveWeight(ids) ==
    /\ course # nullCourse
    /\ LET val == ParseNumber(textInput)
       IN  IF InvalidPercent(val) THEN Refuse("Invalid Weight")
           ELSE /\ Request("updateYear", "updateYear", ids, [weight |-> val.num])
                /\ UNCHANGED aside

HandleSetTarget(type, value, ids) ==
    /\ CASE type = "course" ->
              Request("setCourseTarget", "setCourseTarget", NoIds, [targetGrade |-> value])
         [] type = "year" ->
              Request("setYearTarget", "updateYear", ids, [targetGrade |-> value])
         [] type = "module" ->
              Request("setModuleTarget", "updateModule", ids, [targetGrade |-> value])
    /\ textInput' = ""
    /\ UNCHANGED <<alert, calc>>

HandleCustomSubmit(type, ids) ==
    /\ course # nullCourse
    /\ LET val == ParseNumber(textInput)
       IN  IF InvalidPercent(val) THEN Refuse("Invalid Grade")
           ELSE HandleSetTarget(type, val.num, ids)

HandleAddAssessment(ids, name) ==
    /\ course # nullCourse
    /\ LET weight == OrZero(ParseNumber(textInput))
       IN  IF weight.num <= 0 \/ weight.num > 100 THEN Refuse("Invalid Weight")
           ELSE /\ Request("addAssessment", "addAssessment", ids,
                           [name |-> name, weight |-> weight.num])
                /\ textInput' = ""
                /\ UNCHANGED <<alert, calc>>

\* the ids a target card of the goals tab passes for its type
TargetChoices(type) ==
    CASE type = "course" -> {NoIds}
      [] type = "year" -> YearChoices
      [] type = "module" -> ModuleChoices

UiInit ==
    /\ db = PopulatedDb
    /\ nextId = 5
    /\ Session("u1")
    /\ net = {}
    /\ ncalls = 0
    /\ lastOp = "none"
    /\ removedYears = {}
    /\ oneAtATime = TRUE
    /\ textInput = ""
    /\ alert = "none"
    /\ calc = NoCalc

UiNext ==
    \/ \E text \in Texts : TypeText(text)
    \/ \E ids \in AssessmentChoices : HandleSetGrade(ids)
    \/ \E ids \in YearChoices : HandleSaveWeight(ids)
    \/ \E type \in {"course", "year", "module"} :
          \E ids \in TargetChoices(type) : HandleCustomSubmit(type, ids)
    \/ \E ids \in ModuleChoices : HandleAddAssessment(ids, "asmtB")
    \/ \E r \in net : Server(r)
    \/ \E r \in net : Deliver(r)

UiSpec == UiInit /\ [][UiNext]_vars

----------------------------------------------------------------------------
(* JavaScript numbers: IEEE 754 doubles, round to nearest, ties to even.   *)
(* A double that is not negative is m * 2^e, with m a whole number of 53   *)
(* bits written as four limbs of 16 bits, the most significant first; zero *)
(* has all limbs 0. Operands that are whole numbers stay below 2^14.       *)

Limb == 2^16

RECURSIVE IntBitLen(_)
IntBitLen(n) == IF n = 0 THEN 0 ELSE 1 + IntBitLen(n \div 2)

RECURSIVE StripZeros(_)
StripZeros(m) == IF m # <<>> /\ m[1] = 0 THEN StripZeros(Tail(m)) ELSE m

BitLen(m) ==
    LET s == StripZeros(m)
    IN  IF s = <<>> THEN 0 ELSE IntBitLen(s[1]) + 16 * (Len(s) - 1)

Zeros(k) == [i \in 1..k |-> 0]

\* the last k limbs of m, with zero limbs in front when m is shorter
LastLimbs(m, k) ==
    LET p == Zeros(k) \o m IN SubSeq(p, Len(p) - k + 1, Len(p))

\* m * 2^s; the first limb of m is 0 to leave room
ShiftLeft(m, s) ==
    LET r == s % 16
        w == m \o Zeros(s \div 16)
    IN  [i \in 1..Len(w) |->
            (w[i] % 2^(16 - r)) * 2^r
            + (IF i < Len(w) THEN w[i + 1] \div 2^(16 - r) ELSE 0)]

\* m \div 2^s
ShiftRight(m, s) ==
    LET r == s % 16
        w == SubSeq(Zeros(s \div 16) \o m, 1, Len(m))
    IN  [i \in 1..Len(w) |->
            w[i] \div 2^r + (IF i > 1 THEN (w[i - 1] % 2^r) * 2^(16 - r) ELSE 0)]

\* bit number b of m, the least significant being bit 0
BitAt(m, b) ==
    IF b \div 16 >= Len(m) THEN 0 ELSE (m[Len(m) - b \div 16] \div 2^(b % 16)) % 2

\* some bit of m below bit number b is 1
AnyBelow(m, b) == \E c \in 0..(b - 1) : BitAt(m, c) = 1

\* m + 1; the first limb of m is 0 to leave room
Increment(m) ==
    [i \in 1..Len(m) |->
        IF \A j \in (i + 1)..Len(m) : m[j] = Limb - 1 THEN (m[i] + 1) % Limb ELSE m[i]]

\* a + b for limb sequences of one length, the first limbs 0
RECURSIVE AddFrom(_, _, _, _)
AddFrom(a, b, i, carry) ==
    IF i = 0 THEN <<>>
    ELSE LET v == a[i] + b[i] + carry
         IN  Append(AddFrom(a, b, i - 1, v \div Limb), v % Limb)

\* m * n from limb i upwards
RECURSIVE MulFrom(_, _, _, _)
MulFrom(m, n, i, carry) ==
    IF i = 0 THEN <<>>
    ELSE LET v == m[i] * n + carry
         IN  Append(MulFrom(m, n, i - 1, v \div Limb), v % Limb)

\* the quotient limbs of (rem * Limb^Len(m) + m) \div n, then the remainder
RECURSIVE DivFrom(_, _, _)
DivFrom(m, n, rem) ==
    IF m = <<>> THEN [q |-> <<>>, r |-> rem]
    ELSE LET v == rem * Limb + m[1]
             rest == DivFrom(Tail(m), n, v % n)
         IN  [q |-> <<v \div n>> \o rest.q, r |-> rest.r]

\* the element of a set of one element
The(S) == CHOOSE v \in S : TRUE

\* the kept bits of m above bit s, one added when the bits below round up
RoundedAt(m, s, sticky) ==
    The({IF BitAt(m, s - 1) = 1
            /\ (sticky \/ AnyBelow(m, s - 1) \/ kept[Len(kept)] % 2 = 1)
         THEN Increment(kept) ELSE kept : kept \in {ShiftRight(<<0>> \o m, s)}})

\* a significand of L bits at exponent e as a double
Rounded(m, L, e, sticky) ==
    IF L = 0 THEN [m |-> Zeros(4), e |-> 0]
    ELSE IF L <= 53
         THEN [m |-> LastLimbs(ShiftLeft(<<0, 0, 0, 0>> \o m, 53 - L), 4),
               e |-> e - (53 - L)]
    ELSE The({IF BitLen(rounded) = 54
              THEN [m |-> LastLimbs(ShiftRight(rounded, 1), 4), e |-> e + L - 52]
              ELSE [m |-> LastLimbs(rounded, 4), e |-> e + L - 53] :
                 rounded \in {RoundedAt(m, L - 53, sticky)}})

\* the double nearest to (m + a fraction that is not 0 when sticky) * 2^e
RoundTo53(m, e, sticky) ==
    The({Rounded(v, BitLen(v), e, sticky) : v \in {m}})

IsZero(x) == x.m = Zeros(4)

\* the double of a whole number n >= 0
DoubleOf(n) == RoundTo53(<<n \div Limb, n % Limb>>, 0, FALSE)

\* x * n in doubles, n a whole number
DoubleTimes(x, n) ==
    The({RoundTo53(MulFrom(<<0>> \o v.m, n, 5, 0), v.e, FALSE) : v \in {x}})

\* x / n in doubles, n a whole number above 0
DoubleOver(x, n) ==
    The({The({RoundTo53(d.q, v.e - 32, d.r # 0) : d \in {DivFrom(v.m \o <<0, 0>>, n, 0)}}) :
            v \in {x}})

\* x + y in doubles
PlusOrdered(hi, lo) ==
    IF IsZero(lo) THEN hi
    ELSE IF IsZero(hi) THEN lo
    ELSE IF hi.e - lo.e > 54 THEN hi
    ELSE The({RoundTo53(AddFrom(a, LastLimbs(lo.m, Len(a)), Len(a), 0), lo.e, FALSE) :
                 a \in {ShiftLeft(<<0>> \o hi.m, hi.e - lo.e)}})

DoublePlus(x, y) ==
    The({IF v.e >= w.e \/ IsZero(w) THEN PlusOrdered(v, w) ELSE PlusOrdered(w, v) :
            v \in {x}, w \in {y}})

\* x <= y for doubles
RECURSIVE LimbsLeq(_, _)
LimbsLeq(a, b) ==
    IF a = <<>> THEN TRUE
    ELSE IF a[1] # b[1] THEN a[1] < b[1]
    ELSE LimbsLeq(Tail(a), Tail(b))

DoubleLeq(x, y) ==
    IF IsZero(x) THEN TRUE
    ELSE IF IsZero(y) THEN FALSE
    ELSE IF x.e # y.e THEN x.e < y.e
    ELSE LimbsLeq(x.m, y.m)

\* Math.round(x) for 0 <= x < 2^16: the nearest whole number, a half going up
MathRound(x) ==
    IF IsZero(x) \/ 0 - x.e > 53 THEN 0
    ELSE LET whole == ShiftRight(x.m, 0 - x.e)
         IN  whole[4] + BitAt(x.m, 0 - x.e - 1)

----------------------------------------------------------------------------
(* Grade calculation: lib/types                                            *)
(* Grades are JavaScript numbers, computed in doubles in the order the     *)
(* code computes them.                                                     *)

\* `null` as the result of a calculation
nullGrade == [isNull |-> TRUE]

\* s.reduce((sum, x) => sum + x, 0) over whole numbers
RECURSIVE SumInt(_)
SumInt(s) == IF s = <<>> THEN 0 ELSE s[1] + SumInt(Tail(s))

\* s.reduce((sum, x) => sum + x, sum0) over doubles, from the left
RECURSIVE SumDoubleFrom(_, _)
SumDoubleFrom(sum, s) ==
    IF s = <<>> THEN sum ELSE SumDoubleFrom(DoublePlus(sum, s[1]), Tail(s))

SumDouble(s) == SumDoubleFrom(DoubleOf(0), s)

calculateModuleGrade(mod) ==
    LET Keep(a) == a.completed /\ a.grade # null
        completedAssessments == FilterSeq(mod.assessments, Keep)
        Weight(a) == a.weight
        totalWeight == SumInt(MapSeq(completedAssessments, Weight))
        Term(a) == DoubleOver(DoubleOf(a.grade * a.weight), 100)
        weightedSum == SumDouble(MapSeq(completedAssessments, Term))
    IN  IF Len(completedAssessments) = 0 THEN nullGrade
        ELSE IF totalWeight = 0 THEN nullGrade
        ELSE DoubleTimes(DoubleOver(weightedSum, totalWeight), 100)

\* a faulty variant: the credits of every module are summed, graded or not
calculateYearGradeAllCredits(year) ==
    LET Graded(m) == [grade |-> calculateModuleGrade(m), credits |-> m.credits]
        Keep(m) == m.grade # nullGrade
        modulesWithGrades == FilterSeq(MapSeq(year.modules, Graded), Keep)
        Credits(m) == m.credits
        totalCredits == SumInt(MapSeq(year.modules, Credits))
        Term(m) == DoubleTimes(m.grade, m.credits)
        weightedSum == SumDouble(MapSeq(modulesWithGrades, Term))
    IN  IF Len(modulesWithGrades) = 0 THEN nullGrade
        ELSE IF totalCredits = 0 THEN nullGrade
        ELSE DoubleOver(weightedSum, totalCredits)

calculateYearGrade(year) ==
    LET Graded(m) == [grade |-> calculateModuleGrade(m), credits |-> m.credits]
        Keep(m) == m.grade # nullGrade
        modulesWithGrades == FilterSeq(MapSeq(year.modules, Graded), Keep)
        Credits(m) == m.credits
        totalCredits == SumInt(MapSeq(modulesWithGrades, Credits))
        Term(m) == DoubleTimes(m.grade, m.credits)
        weightedSum == SumDouble(MapSeq(modulesWithGrades, Term))
    IN  IF Len(modulesWithGrades) = 0 THEN nullGrade
        ELSE IF totalCredits = 0 THEN nullGrade
        ELSE DoubleOver(weightedSum, totalCredits)

\* a faulty variant: the weights of every year are summed, graded or not
calculateOverallGradeAllWeights(c) ==
    LET Graded(y) == [grade |-> calculateYearGrade(y), weight |-> y.weight]
        Keep(y) == y.grade # nullGrade
        yearsWithGrades == FilterSeq(MapSeq(c.years, Graded), Keep)
        Weight(y) == y.weight
        totalWeight == SumInt(MapSeq(c.years, Weight))
        Term(y) == DoubleTimes(y.grade, y.weight)
        weightedSum == SumDouble(MapSeq(yearsWithGrades, Term))
    IN  IF Len(yearsWithGrades) = 0 THEN nullGrade
        ELSE IF totalWeight = 0 THEN nullGrade
        ELSE DoubleOver(weightedSum, totalWeight)

calculateOverallGrade(c) ==
    LET Graded(y) == [grade |-> calculateYearGrade(y), weight |-> y.weight]
        Keep(y) == y.grade # nullGrade
        yearsWithGrades == FilterSeq(MapSeq(c.years, Graded), Keep)
        Weight(y) == y.weight
        totalWeight == SumInt(MapSeq(yearsWithGrades, Weight))
        Term(y) == DoubleTimes(y.grade, y.weight)
        weightedSum == SumDouble(MapSeq(yearsWithGrades, Term))
    IN  IF Len(yearsWithGrades) = 0 THEN nullGrade
        ELSE IF totalWeight = 0 THEN nullGrade
        ELSE DoubleOver(weightedSum, totalWeight)

\* the trees handed to the calculations
MaxAssessments == 2
MaxModules == 2
MaxYears == 3

\* every completed and graded assessment, and three that do not count:
\* completed without a grade, graded but open, and open
AssessmentKinds ==
    [weight : {0, 50, 100}, grade : {0, 55, 80, 100}, completed : {TRUE}] \cup
    {[weight |-> 50, grade |-> null, completed |-> TRUE],
     [weight |-> 50, grade |-> 100, completed |-> FALSE],
     [weight |-> 100, grade |-> null, completed |-> FALSE]}

AssessmentOf(i, k) ==
    [AssessmentRow(10 + i, 3, "asmtA", k.weight) EXCEPT
        !.grade = k.grade, !.completed = k.completed]

Assessed(weight, grade) == [weight |-> weight, grade |-> grade, completed |-> TRUE]

\* a module of year 2 with one assessment per kind, in order
ModuleOf(i, credits, kinds) ==
    ModuleNode(ModuleRow(2 + i, 2, "modA", credits),
               [j \in 1..Len(kinds) |-> AssessmentOf(j, kinds[j])])

ModuleShapes ==
    UNION {[1..n -> AssessmentKinds] : n \in 0..MaxAssessments}

\* ungraded, ungraded with an open assessment, graded 80, graded 60
ModuleKinds ==
    [credits : {0, 10, 20},
     kinds : {<<>>, <<[weight |-> 100, grade |-> null, completed |-> FALSE]>>,
              <<Assessed(100, 80)>>, <<Assessed(100, 60)>>}]

YearOf(i, weight, mods) ==
    YearNode(YearRow(i, 1, YearLabel(i), i, weight),
             [j \in 1..Len(mods) |-> ModuleOf(j, mods[j].credits, mods[j].kinds)])

YearShapes == UNION {[1..n -> ModuleKinds] : n \in 0..MaxModules}

\* a year of each weight, without a grade or graded 80, and one graded 60
YearKinds ==
    [weight : {0, 40, 60},
     mods : {<<>>, <<[credits |-> 20, kinds |-> <<Assessed(100, 80)>>]>>}] \cup
    {[weight |-> 60, mods |-> <<[credits |-> 20, kinds |-> <<Assessed(100, 60)>>]>>]}

CourseShapes == UNION {[1..n -> YearKinds] : n \in 0..MaxYears}

CourseOf(years) ==
    CourseNode(CourseRow(1, "u1", "uniA", "titleA", null), years)

\* one module in depth, one year in depth, or a whole course
CourseInputs ==
    {CourseOf(<<YearOf(1, 100, <<>>)>>)} \cup
    {CourseOf(<<[YearOf(1, 100, <<>>) EXCEPT !.modules = <<ModuleOf(1, 20, kinds)>>]>>) :
        kinds \in ModuleShapes} \cup
    {CourseOf(<<YearOf(1, w, mods)>>) : w \in {0, 100}, mods \in YearShapes} \cup
    {CourseOf([i \in 1..Len(ys) |-> YearOf(i, ys[i].weight, ys[i].mods)]) :
        ys \in CourseShapes}

Calculated(fn, arg, out) ==
    /\ calc' = [fn |-> fn, arg |-> arg, out |-> out]
    /\ UNCHANGED <<db, nextId, user, course, isLoading, net, ncalls, lastOp,
                   removedYears, oneAtATime, textInput, alert>>

\* ModuleScreen: const moduleGrade = calculateModuleGrade(mod)
CalculateModuleGrade(mod) ==
    Calculated("calculateModuleGrade", mod, calculateModuleGrade(mod))

\* YearScreen: const yearGrade = calculateYearGrade(year)
CalculateYearGrade(year) ==
    Calculated("calculateYearGrade", year, calculateYearGrade(year))

\* GoalsScreen: const overallGrade = calculateOverallGrade(course)
CalculateOverallGrade ==
    Calculated("calculateOverallGrade", course, calculateOverallGrade(course))

CalcInit ==
    /\ db = PopulatedDb
    /\ nextId = 5
    /\ user = "u1"
    /\ course \in CourseInputs
    /\ isLoading = FALSE
    /\ net = {}
    /\ ncalls = 0
    /\ lastOp = "none"
    /\ removedYears = {}
    /\ oneAtATime = TRUE
    /\ textInput = ""
    /\ alert = "none"
    /\ calc = NoCalc

CalcNext ==
    \/ \E m \in ModulesOf(course) : CalculateModuleGrade(m)
    \/ \E y \in YearsOf(course) : CalculateYearGrade(y)
    \/ CalculateOverallGrade

CalcSpec == CalcInit /\ [][CalcNext]_vars

----------------------------------------------------------------------------
(* Classification and completion: lib/types                                *)

\* a grade handed to getClassification: an exact fraction num/den in lowest
\* terms, den > 0 (every double is one)
RECURSIVE GCD(_, _)
GCD(a, b) == IF b = 0 THEN a ELSE GCD(b, a % b)

Fraction(n, d) == LET g == GCD(n, d) IN [num |-> n \div g, den |-> d \div g]

\* a >= n for a fraction a and a whole number n
AtLeast(a, n) == a.num >= n * a.den

\* a faulty variant: the grade is rounded before it is compared
getClassificationRounded(grade) ==
    IF grade = nullGrade THEN "N/A"
    ELSE IF (2 * grade.num + grade.den) \div (2 * grade.den) >= 70 THEN "First"
    ELSE IF (2 * grade.num + grade.den) \div (2 * grade.den) >= 60 THEN "2:1"
    ELSE IF (2 * grade.num + grade.den) \div (2 * grade.den) >= 50 THEN "2:2"
    ELSE IF (2 * grade.num + grade.den) \div (2 * grade.den) >= 40 THEN "Third"
    ELSE "Fail"

getClassification(grade) ==
    IF grade = nullGrade THEN "N/A"
    ELSE IF AtLeast(grade, 70) THEN "First"
    ELSE IF AtLeast(grade, 60) THEN "2:1"
    ELSE IF AtLeast(grade, 50) THEN "2:2"
    ELSE IF AtLeast(grade, 40) THEN "Third"
    ELSE "Fail"

\* the grades classified: none, every half point of 0..100, and the values a
\* thousandth below each boundary
ClassifyInputs ==
    {nullGrade} \cup {Fraction(n, 2) : n \in 0..200} \cup
    {Fraction(1000 * b - 1, 1000) : b \in {40, 50, 60, 70}}

\* ModuleScreen: const cls = getClassification(moduleGrade)
GetClassification(grade) ==
    Calculated("getClassification", grade, getClassification(grade))

ClassifyInit ==
    /\ db = PopulatedDb
    /\ nextId = 5
    /\ Session("u1")
    /\ net = {}
    /\ ncalls = 0
    /\ lastOp = "none"
    /\ removedYears = {}
    /\ oneAtATime = TRUE
    /\ textInput = ""
    /\ alert = "none"
    /\ calc = NoCalc

ClassifyNext == \E grade \in ClassifyInputs : GetClassification(grade)

ClassifySpec == ClassifyInit /\ [][ClassifyNext]_vars

----------------------------------------------------------------------------
(* Completion: lib/types                                                   *)

getCompletionPercentage(c) ==
    LET Count(m) == Len(m.assessments)
        Done(a) == a.completed
        CountDone(m) == Len(FilterSeq(m.assessments, Done))
        Total(y) == SumInt(MapSeq(y.modules, Count))
        TotalDone(y) == SumInt(MapSeq(y.modules, CountDone))
        total == SumInt(MapSeq(c.years, Total))
        completed == SumInt(MapSeq(c.years, TotalDone))
    IN  IF total = 0 THEN 0
        ELSE MathRound(DoubleTimes(DoubleOver(DoubleOf(completed), total), 100))

\* the trees whose completion is shown: two years, modules 1 and 2 in the
\* first and module 3 in the second, and up to MaxTasks assessments, each in
\* one of the modules and open, completed without a grade, or completed with one
MaxTasks == 3

TaskKinds ==
    {[weight |-> 50, grade |-> null, completed |-> FALSE],
     [weight |-> 50, grade |-> null, completed |-> TRUE],
     [weight |-> 50, grade |-> 80, completed |-> TRUE]}

TaskShapes == UNION {[1..n -> [place : 1..3, kind : TaskKinds]] : n \in 0..MaxTasks}

TasksOf(shape, place) ==
    LET numbered == [i \in 1..Len(shape) |->
                        [place |-> shape[i].place,
                         node |-> AssessmentOf(i, shape[i].kind)]]
        Here(t) == t.place = place
        Node(t) == t.node
    IN  MapSeq(FilterSeq(numbered, Here), Node)

ModuleWith(i, yearId, assts) ==
    ModuleNode(ModuleRow(2 + i, yearId, "modA", 20), assts)

\* larger trees: total assessments dealt in turn to the three modules, the
\* first done of them completed
MaxBulk == 40

BulkShape(total, done) ==
    [i \in 1..total |->
        [place |-> (i % 3) + 1,
         kind |-> [weight |-> 50, grade |-> null, completed |-> i <= done]]]

BulkShapes ==
    UNION {{BulkShape(total, done) : done \in 0..total} : total \in 0..MaxBulk}

CompletionInputs ==
    {CourseOf(<<[YearOf(1, 40, <<>>) EXCEPT !.modules =
                    <<ModuleWith(1, 1, TasksOf(shape, 1)),
                      ModuleWith(2, 1, TasksOf(shape, 2))>>],
                [YearOf(2, 60, <<>>) EXCEPT !.modules =
                    <<ModuleWith(3, 2, TasksOf(shape, 3))>>]>>) :
        shape \in TaskShapes \cup BulkShapes}

\* HomeScreen: const completion = getCompletionPercentage(course)
GetCompletionPercentage ==
    Calculated("getCompletionPercentage", course, getCompletionPercentage(course))

CompletionInit ==
    /\ db = PopulatedDb
    /\ nextId = 5
    /\ user = "u1"
    /\ course \in CompletionInputs
    /\ isLoading = FALSE
    /\ net = {}
    /\ ncalls = 0
    /\ lastOp = "none"
    /\ removedYears = {}
    /\ oneAtATime = TRUE
    /\ textInput = ""
    /\ alert = "none"
    /\ calc = NoCalc

CompletionNext == GetCompletionPercentage

CompletionSpec == CompletionInit /\ [][CompletionNext]_vars

----------------------------------------------------------------------------
(* Updates only, every one of them succeeding: the calls may overlap, the  *)
(* server takes the requests in any order and the answers arrive in any    *)
(* order.                                                                  *)

RaceGradeInputs == GradeInputs \cup {60}

RaceInit ==
    /\ db = PopulatedDb
    /\ nextId = 5
    /\ Session("u1")
    /\ net = {}
    /\ ncalls = 0
    /\ lastOp = "none"
    /\ removedYears = {}
    /\ oneAtATime = FALSE
    /\ textInput = ""
    /\ alert = "none"
    /\ calc = NoCalc

RaceNext ==
    \/ \E ids \in AssessmentChoices, g \in RaceGradeInputs :
          UpdateAssessment(ids, [grade |-> g, completed |-> TRUE])
    \/ \E ids \in ModuleChoices, t \in TargetInputs : SetModuleTarget(ids, t)
    \/ \E ids \in YearChoices, t \in TargetInputs : SetYearTarget(ids, t)
    \/ \E t \in TargetInputs : SetCourseTarget(t)
    \/ \E r \in net : PutAssessment(r)
    \/ \E r \in net : PutModule(r)
    \/ \E r \in net : PutYear(r)
    \/ \E r \in net : PutCourse(r)
    \/ \E r \in net : Deliver(r)

RaceSpec == RaceInit /\ [][RaceNext]_vars

----------------------------------------------------------------------------
(* Mutations made one at a time, none of them failing: a user with the     *)
(* stored course, or one without a course, and the operations that persist *)

SuccessInit ==
    /\ db = PopulatedDb
    /\ nextId = 5
    /\ \E u \in Users : Session(u)
    /\ net = {}
    /\ ncalls = 0
    /\ lastOp = "none"
    /\ removedYears = {}
    /\ oneAtATime = TRUE
    /\ textInput = ""
    /\ alert = "none"
    /\ calc = NoCalc

\* the route handlers, without failures of the store or of the network
Handle(r) ==
    \/ PostCourseCheck(r)
    \/ PostCourseInsert(r)
    \/ PostCourseInsertYear(r)
    \/ PostCourseRespond(r)
    \/ PutCourse(r)
    \/ DeleteCourse(r)
    \/ PutYear(r)
    \/ PostModule(r)
    \/ PutModule(r)
    \/ DeleteModule(r)
    \/ PostAssessment(r)
    \/ PutAssessment(r)
    \/ DeleteAssessment(r)
    \/ AddYearSelect(r)
    \/ AddYearInsert(r)

SuccessNext ==
    \/ \E n \in NumYearsInputs : CreateNewCourse("uniA", "titleA", n)
    \/ \E c \in CourseInfoChoices : SetCourseInfo(c[1], c[2])
    \/ AddYear(NextYearLabel, 0)
    \/ \E ids \in YearChoices, w \in WeightInputs : UpdateYear(ids, [weight |-> w])
    \/ \E ids \in YearChoices, c \in CreditInputs : AddModule(ids, "modA", c)
    \/ \E ids \in ModuleChoices, n \in ModuleNameInputs : UpdateModule(ids, [name |-> n])
    \/ \E ids \in ModuleChoices : RemoveModule(ids)
    \/ \E ids \in ModuleChoices, n \in AssessmentNameInputs, w \in AssessmentWeightInputs :
          AddAssessment(ids, n, w)
    \/ \E ids \in AssessmentChoices, g \in GradeInputs :
          UpdateAssessment(ids, [grade |-> g, completed |-> TRUE])
    \/ \E ids \in AssessmentChoices : RemoveAssessment(ids)
    \/ \E ids \in ModuleChoices, t \in TargetInputs : SetModuleTarget(ids, t)
    \/ \E ids \in YearChoices, t \in TargetInputs : SetYearTarget(ids, t)
    \/ \E t \in TargetInputs : SetCourseTarget(t)
    \/ ResetCourse
    \/ \E r \in net : Handle(r)
    \/ \E r \in net : Deliver(r)

SuccessSpec == SuccessInit /\ [][SuccessNext]_vars

----------------------------------------------------------------------------
(* The routes as any signed-in client can call them: u1 owns the stored    *)
(* course, and a client signed in as u2 sends year, module and assessment  *)
(* requests with the ids it likes.                                         *)

\* a request with the session cookie of uid; requireAuth lets it pass
RequestAs(uid, op, ids, payload) ==
    /\ ncalls < MaxCalls
    /\ ncalls' = ncalls + 1
    /\ lastOp' = op
    /\ Send([NewReq(op, ids, payload) EXCEPT !.uid = uid])
    /\ UNCHANGED <<db, nextId, user, course, isLoading, removedYears, oneAtATime, aside>>

\* the response reaches the client that sent the request
Answered(r) ==
    /\ r.stage = "responded"
    /\ r.uid # user
    /\ net' = net \ {r}
    /\ UNCHANGED <<db, nextId, user, course, isLoading, ncalls, lastOp,
                   removedYears, oneAtATime, aside>>

\* every id of the store, as :courseId, :yearId, :moduleId or :assessmentId
StoredIds ==
    {[NoIds EXCEPT !.courseId = c.id] : c \in db.courses}
    \cup {[NoIds EXCEPT !.yearId = y.id] : y \in db.years}
    \cup {[NoIds EXCEPT !.moduleId = m.id] : m \in db.modules}
    \cup {[NoIds EXCEPT !.assessmentId = a.id] : a \in db.assessments}

ApiInit ==
    /\ db = PopulatedDb
    /\ nextId = 5
    /\ Session("u1")
    /\ net = {}
    /\ ncalls = 0
    /\ lastOp = "none"
    /\ removedYears = {}
    /\ oneAtATime = FALSE
    /\ textInput = ""
    /\ alert = "none"
    /\ calc = NoCalc

ApiNext ==
    \/ \E ids \in StoredIds : RequestAs("u2", "addYear", ids, [label |-> "Year 2", weight |-> 0])
    \/ \E ids \in StoredIds, w \in WeightInputs :
          RequestAs("u2", "updateYear", ids, [weight |-> w])
    \/ \E ids \in StoredIds : RequestAs("u2", "addModule", ids, [name |-> "modB", credits |-> 20])
    \/ \E ids \in StoredIds, n \in ModuleNameInputs :
          RequestAs("u2", "updateModule", ids, [name |-> n])
    \/ \E ids \in StoredIds : RequestAs("u2", "removeModule", ids, msgBody)
    \/ \E ids \in StoredIds :
          RequestAs("u2", "addAssessment", ids, [name |-> "asmtB", weight |-> 50])
    \/ \E ids \in StoredIds, g \in GradeInputs :
          RequestAs("u2", "updateAssessment", ids, [grade |-> g, completed |-> TRUE])
    \/ \E ids \in StoredIds : RequestAs("u2", "removeAssessment", ids, msgBody)
    \/ \E r \in net : Handle(r)
    \/ \E r \in net : Answered(r)

ApiSpec == ApiInit /\ [][ApiNext]_vars

----------------------------------------------------------------------------
(* A mutation of the stored course is under way while the user resets the  *)
(* course and creates a new one.                                           *)

\* the mutations a screen of the stored course (year 2, module 3,
\* assessment 4) can have sent
EarlierMutations ==
    LET year == [NoIds EXCEPT !.yearId = 2]
        mod == [NoIds EXCEPT !.yearId = 2, !.moduleId = 3]
        asmt == [NoIds EXCEPT !.yearId = 2, !.moduleId = 3, !.assessmentId = 4]
    IN  {<<"addYear", [NoIds EXCEPT !.courseId = 1], [label |-> YearLabel(2), weight |-> 0]>>,
         <<"updateYear", year, [weight |-> 50]>>,
         <<"addModule", year, [name |-> "modB", credits |-> 20]>>,
         <<"updateModule", mod, [name |-> "modB"]>>,
         <<"removeModule", mod, msgBody>>,
         <<"addAssessment", mod, [name |-> "asmtB", weight |-> 50]>>,
         <<"updateAssessment", asmt, [grade |-> 80, completed |-> TRUE]>>,
         <<"removeAssessment", asmt, msgBody>>}

LateInit ==
    /\ db = PopulatedDb
    /\ nextId = 5
    /\ Session("u1")
    /\ ncalls = 0
    /\ \E e \in EarlierMutations : net = {[NewReq(e[1], e[2], e[3]) EXCEPT !.seq = 0]}
    /\ lastOp = "none"
    /\ removedYears = {}
    /\ oneAtATime = FALSE
    /\ textInput = ""
    /\ alert = "none"
    /\ calc = NoCalc

LateNext ==
    \/ ResetCourse
    \/ \E n \in NumYearsInputs : CreateNewCourse("uniB", "titleB", n)
    \/ \E r \in net : Handle(r)
    \/ \E r \in net : Deliver(r)

LateSpec == LateInit /\ [][LateNext]_vars

----------------------------------------------------------------------------
(* Loading: the provider as mounted, with every effect and every request   *)
(* running to its end                                                      *)

\* useState(null), useState(true): the provider before its first effect
LoadInit == Init /\ Fresh

\* the effect after mount runs, the server answers every request it has
\* received, and every answer (or the failure of fetch) reaches the client
LoadSpec ==
    /\ LoadInit
    /\ [][Next]_vars
    /\ WF_vars(Mount)
    /\ WF_vars(\E r \in net : Server(r))
    /\ WF_vars(\E r \in net : Deliver(r))

----------------------------------------------------------------------------
(* Vocabulary of the properties *)

\* this step runs the continuation of request r
Delivered(r) == r.stage = "responded" /\ \A q \in net' : q.seq # r.seq

\* this step is the server answering request r, and q is the answer
Answers(r, q) == r.stage # "responded" /\ q \in net' /\ q.seq = r.seq /\ q.stage = "responded"

CoursesOfUser(d, uid) == {c \in d.courses : c.userId = uid}

\* operations that persist a change before touching the tree
PersistingOps ==
    {"createNewCourse", "setCourseInfo", "setCourseTarget", "addYear", "updateYear",
     "addModule", "updateModule", "removeModule", "addAssessment", "updateAssessment",
     "removeAssessment", "resetCourse"}

----------------------------------------------------------------------------
(* C1 *)

\* C1: when the request of a persisting operation fails (a non-2xx answer or
\* no answer at all), the operation leaves the in-memory tree as it was.
C1_FailedPersistenceKeepsTree ==
    [][\A r \in net :
          (Delivered(r) /\ r.op \in PersistingOps /\ ~ResOk(r.status))
              => course' = course]_vars

\* a loaded tree, and an update of one of its modules that the server refused
C1_Witness ==
    \E r \in net :
        /\ r.op = "updateModule" /\ r.stage = "responded" /\ ~ResOk(r.status)
        /\ r.moduleId \in Ids(ModulesOf(course))

----------------------------------------------------------------------------
(* C2 *)

\* C2: once removeYear has been applied, no course the server returns to a
\* fetch issued after it contains that year (the fetch is the latest call).
C2_RemovedYearNeverFetched ==
    [][\A r \in net : \A q \in net' :
          (r.op = "fetchCourse" /\ r.seq = ncalls /\ Answers(r, q) /\ ResOk(q.status))
              => Ids(YearsOf(q.body)) \cap removedYears = {}]_vars

----------------------------------------------------------------------------
(* C3 *)

\* C3: a create request that reaches the server while its user has a course
\* is refused (409, or 500 when the lookup itself fails) and changes no row;
\* the refusal leaves the in-memory tree as it was.
C3_CreateWithCourseRefused ==
    [][\A r \in net :
          /\ (r.op = "createNewCourse" /\ r.stage = "sent" /\ r.uid # NoUser
                /\ CoursesOfUser(db, r.uid) # {} /\ r \notin net')
                 => /\ db' = db
                    /\ \E q \in net' : Answers(r, q) /\ q.status \in {409, 500}
          /\ (r.op = "createNewCourse" /\ Delivered(r) /\ r.status = 409)
                 => course' = course]_vars

\* the user's tree is loaded and their create request came back 409
C3_Witness ==
    \E r \in net :
        /\ r.op = "createNewCourse" /\ r.stage = "responded" /\ r.status = 409
        /\ r.uid = user /\ course # nullCourse
        /\ CoursesOfUser(db, r.uid) # {}

----------------------------------------------------------------------------
(* C4 *)

\* C4: the store never holds more than one course of the same user.
C4_AtMostOneCoursePerUser ==
    \A u \in Users : Cardinality(CoursesOfUser(db, u)) <= 1

----------------------------------------------------------------------------
(* C5 *)

\* every row has its parent row
NoOrphans(d) ==
    /\ \A y \in d.years : y.courseId \in Ids(d.courses)
    /\ \A m \in d.modules : m.yearId \in Ids(d.years)
    /\ \A a \in d.assessments : a.moduleId \in Ids(d.modules)

\* C5: with calls made one at a time, when resetCourse learns that the delete
\* succeeded the in-memory course becomes null, the store holds no course of
\* that user and no row without its parent (so no year, module or assessment
\* of that user), GET /api/course would answer null, and a create request
\* handled while the user has no course is never answered 409.
C5_ResetLeavesNothing ==
    [][\A r \in net :
          /\ (r.op = "resetCourse" /\ Delivered(r) /\ ResOk(r.status))
                 => /\ course' = nullCourse
                    /\ CoursesOfUser(db', r.uid) = {}
                    /\ NoOrphans(db')
                    /\ GetCourseBody(db', r.uid) = nullCourse
          /\ \A q \in net' :
                (r.op = "resetCourse" /\ Answers(r, q) /\ ResOk(q.status))
                    => CoursesOfUser(db', r.uid) = {} /\ NoOrphans(db')
          /\ (r.op = "createNewCourse" /\ r.stage = "sent" /\ r.uid # NoUser
                /\ CoursesOfUser(db, r.uid) = {})
                 => \A q \in net' : q.seq = r.seq => q.status # 409]_vars

\* u1 reset the course they started with and then created a new one
C5_Witness ==
    /\ oneAtATime /\ net = {} /\ user = "u1"
    /\ ncalls = 2 /\ lastOp = "createNewCourse"
    /\ course # nullCourse /\ course.id # 1
    /\ Ids(CoursesOfUser(db, "u1")) = {course.id}
    /\ db.modules = {}

----------------------------------------------------------------------------
(* C6 *)

WithoutId(s, id) ==
    LET Keep(x) == x.id # id IN SelectSeq(s, Keep)

\* tree c2 is tree c without module id: same course fields, same years in the
\* same order, and in each year the same modules but that one
TreeLessModule(c, c2, id) ==
    /\ c2 # nullCourse
    /\ [c2 EXCEPT !.years = <<>>] = [c EXCEPT !.years = <<>>]
    /\ Len(c2.years) = Len(c.years)
    /\ \A i \in 1..Len(c.years) :
          /\ [c2.years[i] EXCEPT !.modules = <<>>] = [c.years[i] EXCEPT !.modules = <<>>]
          /\ c2.years[i].modules = WithoutId(c.years[i].modules, id)

\* tree c2 is tree c without assessment id
TreeLessAssessment(c, c2, id) ==
    /\ c2 # nullCourse
    /\ [c2 EXCEPT !.years = <<>>] = [c EXCEPT !.years = <<>>]
    /\ Len(c2.years) = Len(c.years)
    /\ \A i \in 1..Len(c.years) :
          LET y == c.years[i]
              y2 == c2.years[i]
          IN  /\ [y2 EXCEPT !.modules = <<>>] = [y EXCEPT !.modules = <<>>]
              /\ Len(y2.modules) = Len(y.modules)
              /\ \A j \in 1..Len(y.modules) :
                    /\ [y2.modules[j] EXCEPT !.assessments = <<>>] =
                           [y.modules[j] EXCEPT !.assessments = <<>>]
                    /\ y2.modules[j].assessments = WithoutId(y.modules[j].assessments, id)

\* C6: a removeModule that succeeded takes exactly that module, with its
\* assessments, out of the in-memory tree and out of the store, and a
\* removeAssessment that succeeded exactly that assessment; a removed id
\* never enters the store again, and a fetch is answered from the store.
C6_RemoveTakesExactlyOne ==
    [][/\ \A r \in net :
            /\ (r.op = "removeModule" /\ Delivered(r) /\ ResOk(r.status))
                   => /\ course # nullCourse => TreeLessModule(course, course', r.moduleId)
                      /\ r.moduleId \notin Ids(ModulesOf(course'))
                      /\ r.moduleId \notin Ids(db'.modules)
                      /\ \A a \in db'.assessments : a.moduleId # r.moduleId
            /\ (r.op = "removeAssessment" /\ Delivered(r) /\ ResOk(r.status))
                   => /\ course # nullCourse
                            => TreeLessAssessment(course, course', r.assessmentId)
                      /\ r.assessmentId \notin Ids(AssessmentsOf(course'))
                      /\ r.assessmentId \notin Ids(db'.assessments)
            /\ \A q \in net' :
                  /\ (r.op = "removeModule" /\ Answers(r, q) /\ ResOk(q.status))
                         => db' = [db EXCEPT
                                     !.modules = {m \in @ : m.id # r.moduleId},
                                     !.assessments = {a \in @ : a.moduleId # r.moduleId}]
                  /\ (r.op = "removeAssessment" /\ Answers(r, q) /\ ResOk(q.status))
                         => db' = [db EXCEPT
                                     !.assessments = {a \in @ : a.id # r.assessmentId}]
                  /\ (r.op = "fetchCourse" /\ Answers(r, q) /\ ResOk(q.status))
                         => /\ Ids(ModulesOf(q.body)) \subseteq Ids(db.modules)
                            /\ Ids(AssessmentsOf(q.body)) \subseteq Ids(db.assessments)
       /\ \A id \in Ids(db'.modules) \ Ids(db.modules) : id >= nextId
       /\ \A id \in Ids(db'.assessments) \ Ids(db.assessments) : id >= nextId]_vars

\* the one call made was removeModule, and the module and its assessment are
\* gone from the tree and from the store while the year is still there
C6_Witness ==
    /\ ncalls = 1 /\ lastOp = "removeModule" /\ net = {}
    /\ course # nullCourse /\ Len(course.years) = 1
    /\ ModulesOf(course) = {}
    /\ db.modules = {} /\ db.assessments = {} /\ db.years # {}

----------------------------------------------------------------------------
(* C7 *)

SameUserSignedIn == user # NoUser /\ user' = user

\* C7: while the same user stays signed in, the in-memory course goes from
\* present to absent only when a resetCourse succeeded, from absent to present
\* only when a create succeeded or a fetch was answered with a course, and a
\* fetch that failed leaves a loaded course in place.
C7_LoadedEmptyTransitions ==
    [][/\ (SameUserSignedIn /\ course # nullCourse /\ course' = nullCourse)
              => \E r \in net :
                    r.op = "resetCourse" /\ Delivered(r) /\ ResOk(r.status)
       /\ (SameUserSignedIn /\ course = nullCourse /\ course' # nullCourse)
              => \E r \in net :
                    /\ r.op \in {"createNewCourse", "fetchCourse"}
                    /\ Delivered(r) /\ ResOk(r.status)
       /\ \A r \in net :
              (SameUserSignedIn /\ r.op = "fetchCourse" /\ Delivered(r)
                 /\ ~ResOk(r.status) /\ course # nullCourse)
                  => course' = course]_vars

----------------------------------------------------------------------------
(* C8 *)

StructuralCalls ==
    {"setCourseInfo", "addYear", "updateYear", "removeYear", "addModule",
     "updateModule", "removeModule", "addAssessment", "updateAssessment",
     "removeAssessment", "setCourseTarget", "setYearTarget", "setModuleTarget"}

\* C8: a structural operation called while the in-memory course is null
\* sends no request and leaves the in-memory course and the store as they are.
C8_NoCourseNoEffect ==
    [][(ncalls' = ncalls + 1 /\ lastOp' \in StructuralCalls /\ course = nullCourse)
          => net' = net /\ course' = course /\ db' = db]_vars

\* u2, who has no course, made one structural call and nothing is in flight
C8_Witness ==
    /\ user = "u2" /\ course = nullCourse
    /\ ncalls = 1 /\ lastOp \in StructuralCalls
    /\ net = {} /\ db = PopulatedDb

----------------------------------------------------------------------------
(* C9 *)

\* the row a request addresses by id is not in the store
TargetMissing(r) ==
    \/ r.op = "updateYear" /\ r.yearId \notin Ids(db.years)
    \/ r.op \in {"updateModule", "removeModule"} /\ r.moduleId \notin Ids(db.modules)
    \/ r.op \in {"updateAssessment", "removeAssessment"}
         /\ r.assessmentId \notin Ids(db.assessments)

\* C9: an update or delete that reaches the server when the year, module or
\* assessment it addresses is not in the store is not answered with a 2xx
\* status (so that the operation does not go on to change the tree).
C9_MissingIdFails ==
    [][\A r \in net : \A q \in net' :
          (r.stage = "sent" /\ r.uid # NoUser /\ TargetMissing(r) /\ Answers(r, q))
              => ~ResOk(q.status)]_vars

----------------------------------------------------------------------------
(* C10 *)

\* record x2 is record x with the fields of p replaced by p's values
Patched(x, x2, p) ==
    /\ DOMAIN x2 = DOMAIN x
    /\ \A f \in DOMAIN x : x2[f] = IF f \in DOMAIN p THEN p[f] ELSE x[f]

\* sequence s2 is sequence s with the element of that id patched by p
PatchedIn(s, s2, id, p) ==
    /\ Len(s2) = Len(s)
    /\ \A i \in 1..Len(s) :
          IF s[i].id = id THEN Patched(s[i], s2[i], p) ELSE s2[i] = s[i]

\* sequence s2 is sequence s but for field f of the element of that id
SameButField(s, s2, id, f) ==
    /\ Len(s2) = Len(s)
    /\ \A i \in 1..Len(s) :
          /\ s[i].id # id => s2[i] = s[i]
          /\ s2[i] = [s[i] EXCEPT ![f] = s2[i][f]]

\* table t2 is table t with the row of that id patched by p
PatchedRows(t, t2, id, p) ==
    /\ Ids(t2) = Ids(t)
    /\ \A x \in t : \E x2 \in t2 :
          /\ x2.id = x.id
          /\ IF x.id = id THEN Patched(x, x2, p) ELSE x2 = x

\* the in-memory tree after a successful update differs from the tree before
\* in the provided fields of the addressed entity and in nothing else
TreePatched(c, c2, r) ==
    CASE r.op \in {"setCourseInfo", "setCourseTarget"} -> Patched(c, c2, r.payload)
      [] r.op = "updateYear" ->
            /\ c2 = [c EXCEPT !.years = c2.years]
            /\ PatchedIn(c.years, c2.years, r.yearId, r.payload)
      [] r.op = "updateModule" ->
            /\ c2 = [c EXCEPT !.years = c2.years]
            /\ SameButField(c.years, c2.years, r.yearId, "modules")
            /\ \A i \in 1..Len(c.years) :
                  c.years[i].id = r.yearId =>
                      PatchedIn(c.years[i].modules, c2.years[i].modules,
                                r.moduleId, r.payload)
      [] r.op = "updateAssessment" ->
            /\ c2 = [c EXCEPT !.years = c2.years]
            /\ SameButField(c.years, c2.years, r.yearId, "modules")
            /\ \A i \in 1..Len(c.years) :
                  c.years[i].id = r.yearId =>
                      LET ms == c.years[i].modules
                          ms2 == c2.years[i].modules
                      IN  /\ SameButField(ms, ms2, r.moduleId, "assessments")
                          /\ \A j \in 1..Len(ms) :
                                ms[j].id = r.moduleId =>
                                    PatchedIn(ms[j].assessments, ms2[j].assessments,
                                              r.assessmentId, r.payload)

\* the store after a successful update differs from the store before in the
\* provided columns of the addressed row and in nothing else
StorePatched(d, d2, r) ==
    CASE r.op \in {"setCourseInfo", "setCourseTarget"} ->
            /\ d2 = [d EXCEPT !.courses = d2.courses]
            /\ \E c \in CoursesOfUser(d, r.uid) :
                  PatchedRows(d.courses, d2.courses, c.id, r.payload)
      [] r.op = "updateYear" ->
            /\ d2 = [d EXCEPT !.years = d2.years]
            /\ PatchedRows(d.years, d2.years, r.yearId, r.payload)
      [] r.op = "updateModule" ->
            /\ d2 = [d EXCEPT !.modules = d2.modules]
            /\ PatchedRows(d.modules, d2.modules, r.moduleId, r.payload)
      [] r.op = "updateAssessment" ->
            /\ d2 = [d EXCEPT !.assessments = d2.assessments]
            /\ PatchedRows(d.assessments, d2.assessments, r.assessmentId, r.payload)

UpdateOps ==
    {"setCourseInfo", "setCourseTarget", "updateYear", "updateModule", "updateAssessment"}

\* C10: an update that succeeds gives the provided fields of the addressed
\* course, year, module or assessment their provided values (null included)
\* and changes no other field, entity or child, in the store when the server
\* applies it and in the in-memory tree when the operation completes.
C10_UpdatesArePartial ==
    [][\A r \in net :
          /\ \A q \in net' :
                (r.op \in UpdateOps /\ Answers(r, q) /\ ResOk(q.status))
                    => StorePatched(db, db', r)
          /\ (r.op \in UpdateOps /\ Delivered(r) /\ ResOk(r.status)
                /\ course # nullCourse)
                 => course' # nullCourse /\ TreePatched(course, course', r)]_vars

\* the in-memory course target is 70 and the server has just cleared the
\* stored one, keeping the names; the answer is on its way to the client
C10_Witness ==
    /\ course # nullCourse /\ course.targetGrade = 70
    /\ \E r \in net :
          /\ r.op = "setCourseTarget" /\ r.payload.targetGrade = null
          /\ r.stage = "responded" /\ ResOk(r.status)
    /\ \E c \in db.courses :
          c.id = course.id /\ c.targetGrade = null /\ c.universityName = "uniA"

----------------------------------------------------------------------------
(* C11 *)

\* where the modules and the assessments of tree c sit
ModulePositions(c) ==
    UNION {{<<i, j>> : j \in 1..Len(c.years[i].modules)} : i \in 1..Len(c.years)}

AssessmentPositions(c) ==
    UNION {{<<p[1], p[2], k>> : k \in 1..Len(c.years[p[1]].modules[p[2]].assessments)} :
              p \in ModulePositions(c)}

\* C11: the in-memory tree never holds the same year id, module id or
\* assessment id at two places.
C11_StrictTree ==
    course # nullCourse =>
        /\ \A i, j \in 1..Len(course.years) :
              i # j => course.years[i].id # course.years[j].id
        /\ \A p, q \in ModulePositions(course) :
              p # q => course.years[p[1]].modules[p[2]].id #
                           course.years[q[1]].modules[q[2]].id
        /\ \A p, q \in AssessmentPositions(course) :
              p # q => course.years[p[1]].modules[p[2]].assessments[p[3]].id #
                           course.years[q[1]].modules[q[2]].assessments[q[3]].id

----------------------------------------------------------------------------
(* C12 *)

YearsOfCourse(d, courseId) == {y \in d.years : y.courseId = courseId}

\* C12: in the store the years of every course are numbered 1..n without
\* duplicates or gaps, and the year an addYear request inserts carries the
\* number of years the course had before, plus one.
C12_YearNumbersDense ==
    [][/\ \A c \in db'.courses :
             {y.yearNumber : y \in YearsOfCourse(db', c.id)} =
                 1..Cardinality(YearsOfCourse(db', c.id))
       /\ \A r \in net : \A q \in net' :
             (r.op = "addYear" /\ Answers(r, q) /\ ResOk(q.status))
                 => q.body.yearNumber = Cardinality(YearsOfCourse(db, r.courseId)) + 1]_vars

----------------------------------------------------------------------------
(* C13 *)

\* the years of a tree are in ascending order of yearNumber, without modules
FreshYears(years) ==
    /\ \A i \in 1..Len(years) : years[i].modules = <<>>
    /\ \A i, j \in 1..Len(years) : i < j => years[i].yearNumber < years[j].yearNumber

\* C13: the tree a successful create installs is what GET /api/course builds
\* from the store at that moment, with its years in ascending yearNumber and
\* no modules; and the fetch that follows returns the tree already in memory.
C13_CreateFetchRoundTrip ==
    [][\A r \in net :
          /\ (r.op = "createNewCourse" /\ Delivered(r) /\ ResOk(r.status))
                 => /\ course' = r.body
                    /\ GetCourseBody(db', r.uid) = r.body
                    /\ FreshYears(r.body.years)
          /\ (r.op = "fetchCourse" /\ Delivered(r) /\ ResOk(r.status)
                /\ course # nullCourse)
                 => r.body = course /\ course' = course]_vars

\* the course u2 created, with four years, has come back from the fetch
\* that followed and is the tree in memory
C13_Witness ==
    /\ course # nullCourse /\ course.userId = "u2" /\ Len(course.years) = 4
    /\ lastOp = "refreshCourse"
    /\ \E r \in net :
          /\ r.op = "fetchCourse" /\ r.stage = "responded" /\ ResOk(r.status)
          /\ r.body = course

----------------------------------------------------------------------------
(* C14 *)

\* the weights of a sequence of years, in its order
WeightsOf(years) == [i \in 1..Len(years) |-> years[i].weight]

\* C14: a create that succeeds for 3 years returns and stores years whose
\* weights in yearNumber order are 0, 40, 60, and for 4 years 0, 20, 30, 50.
C14_DefaultWeights ==
    [][\A r \in net : \A q \in net' :
          (r.op = "createNewCourse" /\ Answers(r, q) /\ ResOk(q.status))
              => LET stored == SortBy(YearsOfCourse(db', q.body.id), "yearNumber")
                 IN  /\ r.payload.numYears = 3 =>
                            /\ WeightsOf(q.body.years) = <<0, 40, 60>>
                            /\ WeightsOf(stored) = <<0, 40, 60>>
                     /\ r.payload.numYears = 4 =>
                            /\ WeightsOf(q.body.years) = <<0, 20, 30, 50>>
                            /\ WeightsOf(stored) = <<0, 20, 30, 50>>]_vars

\* the tree in memory is the three-year course u2 asked for
C14_Witness ==
    /\ course # nullCourse /\ course.userId = "u2"
    /\ Len(course.years) = 3
    /\ WeightsOf(course.years) = <<0, 40, 60>>
    /\ \A i \in 1..3 : course.years[i].yearNumber = i

----------------------------------------------------------------------------
(* C15 *)

ExpectedLabels ==
    <<"Year 1", "Year 2", "Year 3", "Year 4", "Year 5", "Year 6", "Year 7", "Year 8">>

\* the years are numbered 1..n and labelled "Year 1".."Year n"
NumberedAndLabelled(years, n) ==
    /\ Len(years) = n
    /\ \A i \in 1..n : years[i].yearNumber = i /\ years[i].label = ExpectedLabels[i]

\* C15 as claimed: a create that succeeds for yearCount years returns exactly
\* yearCount years numbered 1..yearCount and labelled "Year n", each of
\* weight exactly 100/yearCount when the count is neither 3 nor 4.
C15_ExactShares ==
    [][\A r \in net : \A q \in net' :
          (r.op = "createNewCourse" /\ Answers(r, q) /\ ResOk(q.status))
              => LET n == r.payload.numYears
                 IN  /\ NumberedAndLabelled(q.body.years, n)
                     /\ n \notin {3, 4} =>
                           \A i \in 1..Len(q.body.years) :
                               q.body.years[i].weight * n = 100]_vars

\* w is 100/n rounded to a nearest integer
NearestShare(w, n) ==
    /\ 2 * (w * n - 100) <= n
    /\ 2 * (100 - w * n) <= n

\* C15 as amended: a create that succeeds for yearCount >= 1 years returns and
\* stores exactly yearCount years numbered 1..yearCount and labelled "Year n",
\* each of weight 100/yearCount rounded to the nearest integer when the
\* count is neither 3 nor 4; a count of 0 is taken as 3.
C15_RoundedShares ==
    [][\A r \in net : \A q \in net' :
          (r.op = "createNewCourse" /\ Answers(r, q) /\ ResOk(q.status))
              => LET n == IF r.payload.numYears = 0 THEN 3 ELSE r.payload.numYears
                     stored == SortBy(YearsOfCourse(db', q.body.id), "yearNumber")
                 IN  /\ NumberedAndLabelled(q.body.years, n)
                     /\ NumberedAndLabelled(stored, n)
                     /\ WeightsOf(stored) = WeightsOf(q.body.years)
                     /\ n \notin {3, 4} =>
                           \A i \in 1..n : NearestShare(q.body.years[i].weight, n)]_vars

\* the tree in memory is the six-year course u2 asked for, each year of
\* weight 17
C15_Witness ==
    /\ course # nullCourse /\ course.userId = "u2"
    /\ Len(course.years) = 6
    /\ \A i \in 1..6 : course.years[i].weight = 17 /\ course.years[i].yearNumber = i

----------------------------------------------------------------------------
(* C16 *)

CompletedIffGraded(a) == a.completed <=> a.grade # null

\* C16: with the assessments added and graded the way the screens do it,
\* every assessment in the store and in the in-memory tree is completed
\* exactly when it has a grade.
C16_CompletedIffGraded ==
    /\ \A a \in db.assessments : CompletedIffGraded(a)
    /\ \A a \in AssessmentsOf(course) : CompletedIffGraded(a)

\* assessment 4 has been graded and a new assessment added after it: the
\* store and the tree show the first completed with its grade, the second
\* neither
C16_Witness ==
    /\ net = {}
    /\ \E a \in db.assessments : a.id = 4 /\ a.grade = 80 /\ a.completed
    /\ \E a \in AssessmentsOf(course) : a.id = 4 /\ a.grade = 80 /\ a.completed
    /\ \E a \in db.assessments : a.id # 4 /\ a.grade = null /\ ~a.completed
    /\ \E a \in AssessmentsOf(course) : a.id # 4 /\ a.grade = null /\ ~a.completed


\* a percentage as the forms accept it
Percent(n) == n \in 0..100

\* the text in the field reads as a number between lo and 100
ReadsWithin(text, lo) ==
    /\ text \in {"0", "100"}
    /\ \E n \in lo..100 : ParseNumber(text) = Number(n)

\* the request this step sends
Sent(q) == q \in net' /\ q.seq = ncalls' /\ q.stage = "sent" /\ q \notin net

PercentagesInRange(d, c) ==
    /\ \A a \in d.assessments : a.grade = null \/ Percent(a.grade)
    /\ \A a \in d.assessments : Percent(a.weight)
    /\ \A y \in d.years : Percent(y.weight)
    /\ \A x \in d.courses \cup d.years \cup d.modules :
          x.targetGrade = null \/ Percent(x.targetGrade)
    /\ c # nullCourse =>
          /\ c.targetGrade = null \/ Percent(c.targetGrade)
          /\ \A y \in YearsOf(c) :
                Percent(y.weight) /\ (y.targetGrade = null \/ Percent(y.targetGrade))
          /\ \A m \in ModulesOf(c) : m.targetGrade = null \/ Percent(m.targetGrade)
          /\ \A a \in AssessmentsOf(c) :
                Percent(a.weight) /\ (a.grade = null \/ Percent(a.grade))

RECURSIVE Total(_, _)
Total(f, S) ==
    IF S = {} THEN 0
    ELSE LET i == CHOOSE j \in S : TRUE IN f[i] + Total(f, S \ {i})

\* f[1] + ... + f[n] in doubles, from the left
RECURSIVE TotalDouble(_, _)
TotalDouble(f, n) ==
    IF n = 0 THEN DoubleOf(0) ELSE DoublePlus(TotalDouble(f, n - 1), f[n])

Without(s, i) == SubSeq(s, 1, i - 1) \o SubSeq(s, i + 1, Len(s))

Counted(a) == a.completed /\ a.grade # null

\* C18: the module grade on display is null when no assessment is completed
\* with a grade or when the weights of those sum to zero, and otherwise is the
\* sum of grade times weight over the sum of weight, taken over exactly those;
\* appending an incomplete or ungraded assessment, or removing one, leaves it
\* as it is; one assessment of weight 100 graded 80 gives 80, and two of
\* weight 50 graded 100 and 0 give 50.
C18_ModuleGrade ==
    calc.fn = "calculateModuleGrade" =>
        LET as == calc.arg.assessments
            S == {i \in 1..Len(as) : Counted(as[i])}
            W == Total([i \in S |-> as[i].weight], S)
            GW == Total([i \in S |-> as[i].grade * as[i].weight], S)
        IN  /\ (S = {} \/ W = 0) => calc.out = nullGrade
            /\ (S # {} /\ W # 0) => calc.out = DoubleOver(DoubleOf(GW), W)
            /\ \A k \in AssessmentKinds : ~Counted(k) =>
                  calculateModuleGrade([calc.arg EXCEPT !.assessments =
                      Append(as, AssessmentOf(Len(as) + 1, k))]) = calc.out
            /\ \A i \in (1..Len(as)) \ S :
                  calculateModuleGrade([calc.arg EXCEPT !.assessments =
                      Without(as, i)]) = calc.out
            /\ (Len(as) = 1 /\ Counted(as[1]) /\ as[1].weight = 100 /\ as[1].grade = 80)
                  => calc.out = DoubleOf(80)
            /\ (/\ Len(as) = 2
                /\ Counted(as[1]) /\ as[1].weight = 50 /\ as[1].grade = 100
                /\ Counted(as[2]) /\ as[2].weight = 50 /\ as[2].grade = 0)
                  => calc.out = DoubleOf(50)

\* C19: the year grade on display is null when no module has a grade or when
\* the credits of the graded modules sum to zero, and otherwise is the sum of
\* module grade times credits over the sum of credits, taken over exactly the
\* graded modules; the year's weight and the credits of ungraded modules do
\* not change it; modules graded 80 with 20 credits and 60 with 10 credits
\* give 2200/30.
C19_YearGrade ==
    calc.fn = "calculateYearGrade" =>
        LET ms == calc.arg.modules
            g == [i \in 1..Len(ms) |-> calculateModuleGrade(ms[i])]
            S == {i \in 1..Len(ms) : g[i] # nullGrade}
            C == Total([i \in S |-> ms[i].credits], S)
            GC == TotalDouble([i \in 1..Len(ms) |->
                                  IF i \in S THEN DoubleTimes(g[i], ms[i].credits)
                                  ELSE DoubleOf(0)], Len(ms))
        IN  /\ (S = {} \/ C = 0) => calc.out = nullGrade
            /\ (S # {} /\ C # 0) => calc.out = DoubleOver(GC, C)
            /\ \A w \in {0, 40, 60, 100} :
                  calculateYearGrade([calc.arg EXCEPT !.weight = w]) = calc.out
            /\ \A i \in (1..Len(ms)) \ S : \A c \in {0, 10, 20} :
                  calculateYearGrade([calc.arg EXCEPT !.modules[i].credits = c])
                      = calc.out
            /\ (/\ Len(ms) = 2
                /\ g[1] = DoubleOf(80) /\ ms[1].credits = 20
                /\ g[2] = DoubleOf(60) /\ ms[2].credits = 10)
                  => calc.out = DoubleOver(DoubleOf(2200), 30)

\* the year of the example: 80 with 20 credits and 60 with 10 credits
C19_Witness ==
    /\ calc.fn = "calculateYearGrade"
    /\ Len(calc.arg.modules) = 2
    /\ calculateModuleGrade(calc.arg.modules[1]) = DoubleOf(80)
    /\ calc.arg.modules[1].credits = 20
    /\ calculateModuleGrade(calc.arg.modules[2]) = DoubleOf(60)
    /\ calc.arg.modules[2].credits = 10
    /\ calc.out = DoubleOver(DoubleOf(2200), 30)

\* C20: the overall grade on display is null when no year has a grade or when
\* the weights of the graded years sum to zero (as on the schedule 0, 40, 60
\* with grades in Year 1 only), and otherwise is the sum of year grade times
\* weight over the sum of weight, taken over exactly the graded years.
C20_OverallGrade ==
    calc.fn = "calculateOverallGrade" =>
        LET ys == calc.arg.years
            g == [i \in 1..Len(ys) |-> calculateYearGrade(ys[i])]
            S == {i \in 1..Len(ys) : g[i] # nullGrade}
            W == Total([i \in S |-> ys[i].weight], S)
            GW == TotalDouble([i \in 1..Len(ys) |->
                                  IF i \in S THEN DoubleTimes(g[i], ys[i].weight)
                                  ELSE DoubleOf(0)], Len(ys))
        IN  /\ (S = {} \/ W = 0) => calc.out = nullGrade
            /\ (S # {} /\ W # 0) => calc.out = DoubleOver(GW, W)
            /\ (/\ Len(ys) = 3
                /\ ys[1].weight = 0 /\ ys[2].weight = 40 /\ ys[3].weight = 60
                /\ S = {1})
                  => calc.out = nullGrade

\* the schedule 0, 40, 60 with a grade in Year 1 only: no overall grade
C20_Witness ==
    /\ calc.fn = "calculateOverallGrade"
    /\ Len(calc.arg.years) = 3
    /\ calc.arg.years[1].weight = 0
    /\ calc.arg.years[2].weight = 40
    /\ calc.arg.years[3].weight = 60
    /\ calculateYearGrade(calc.arg.years[1]) = DoubleOf(80)
    /\ calculateYearGrade(calc.arg.years[2]) = nullGrade
    /\ calculateYearGrade(calc.arg.years[3]) = nullGrade
    /\ calc.out = nullGrade


\* the classes from the lowest to the highest
Rank(cls) ==
    CASE cls = "Fail" -> 0
      [] cls = "Third" -> 1
      [] cls = "2:2" -> 2
      [] cls = "2:1" -> 3
      [] cls = "First" -> 4

\* C21: the class on display is N/A for no grade and otherwise is decided by
\* the unrounded grade with inclusive lower bounds: First from 70, 2:1 from 60
\* and below 70, 2:2 from 50 and below 60, Third from 40 and below 50, Fail
\* below 40; 70 is First, 69.999 and 69.5 are 2:1, and no higher grade gets a
\* lower class.
C21_Classification ==
    calc.fn = "getClassification" =>
        LET g == calc.arg
            Below(n) == g.num < n * g.den
        IN  /\ calc.out \in {"N/A", "First", "2:1", "2:2", "Third", "Fail"}
            /\ calc.out = "N/A" <=> g = nullGrade
            /\ g # nullGrade =>
                  /\ calc.out = "First" <=> ~Below(70)
                  /\ calc.out = "2:1" <=> (~Below(60) /\ Below(70))
                  /\ calc.out = "2:2" <=> (~Below(50) /\ Below(60))
                  /\ calc.out = "Third" <=> (~Below(40) /\ Below(50))
                  /\ calc.out = "Fail" <=> Below(40)
                  /\ g = [num |-> 70, den |-> 1] => calc.out = "First"
                  /\ g \in {[num |-> 69999, den |-> 1000], [num |-> 139, den |-> 2]}
                        => calc.out = "2:1"
                  /\ \A h \in ClassifyInputs \ {nullGrade} :
                        h.num * g.den >= g.num * h.den =>
                            Rank(getClassification(h)) >= Rank(calc.out)

\* 69.5 has been classified 2:1
C21_Witness ==
    /\ calc.fn = "getClassification"
    /\ calc.arg = [num |-> 139, den |-> 2]
    /\ calc.out = "2:1"


\* C22: the completion on display is a whole number of 0..100; it is 0 for a
\* tree without assessments and otherwise 100 times the completed assessments
\* over all assessments of the tree, rounded to the nearest whole number with
\* a half going up, whether or not the completed ones carry a grade.
C22_CompletionPercentage ==
    calc.fn = "getCompletionPercentage" =>
        LET total == Cardinality(AssessmentsOf(calc.arg))
            done == Cardinality({a \in AssessmentsOf(calc.arg) : a.completed})
        IN  /\ calc.out \in 0..100
            /\ total = 0 => calc.out = 0
            /\ total > 0 =>
                  /\ 2 * calc.out * total <= 200 * done + total
                  /\ 200 * done + total < 2 * calc.out * total + 2 * total


\* C23: once every update has been answered, each grade and each target in
\* the tree is the one the store holds, in whatever order the server took the
\* requests and the answers arrived.
C23_UpdatesConverge ==
    net = {} =>
        LET stored == GetCourseBody(db, user)
            Grade(a) == <<a.id, a.grade, a.completed>>
            Target(n) == <<n.id, n.targetGrade>>
        IN  /\ {Grade(a) : a \in AssessmentsOf(course)}
                  = {Grade(a) : a \in AssessmentsOf(stored)}
            /\ {Target(n) : n \in ModulesOf(course)} = {Target(n) : n \in ModulesOf(stored)}
            /\ {Target(n) : n \in YearsOf(course)} = {Target(n) : n \in YearsOf(stored)}
            /\ course.targetGrade = stored.targetGrade


C25_OtherUsersTreeUntouched ==
    GetCourseBody(db, "u1") = GetCourseBody(PopulatedDb, "u1")


\* C26: once the course has been reset, the answer to a mutation that was
\* sent for the earlier course (course 1) changes nothing in memory: a new
\* course keeps its tree, and without a new course the course stays null.
C26_LateAnswerIgnored ==
    [][\A r \in net :
          (Delivered(r) /\ r.seq = 0 /\ (course = nullCourse \/ course.id # 1))
              => course' = course]_vars


\* C27: when no user is signed in and no request is in flight, the in-memory
\* course is null: an answer that belongs to the user who logged out installs
\* no course.
C27_NoUserNoCourse ==
    (user = NoUser /\ net = {}) => course = nullCourse


\* the course row a POST /api/course request has inserted
Inserted(r) == r.op = "createNewCourse" /\ r.pc >= 2

\* C28: createCourse is all-or-nothing in the store: once its handler has
\* answered, the course it inserted is either gone or has every year
\* generated for it, and no GET /api/course answer ever carries that course
\* with only some of its years.
C28_CreateAllOrNothing ==
    \A r \in net : Inserted(r) =>
        /\ (r.stage = "responded" /\ r.tmp.id \in Ids(db.courses))
              => Cardinality({y \in db.years : y.courseId = r.tmp.id}) = NumYears(r)
        /\ \A f \in net :
              (f.op = "fetchCourse" /\ f.stage = "responded" /\ f.status = 200
                  /\ f.body # nullCourse /\ f.body.id = r.tmp.id)
              => Len(f.body.years) = NumYears(r)


\* C29: loading always ends: from the provider as mounted (isLoading true,
\* course null), when every request completes, isLoading becomes false -
\* with no user, after a fetch that succeeds and after one that fails - and
\* from then on it is never true again.
C29_LoadingEnds == <>[](~isLoading)

\* loading has ended and the fetch after the first login has been answered
C29_Witness ==
    ~isLoading /\ user # NoUser /\ lastOp = "login" /\ net = {} /\ course # nullCourse


\* x is no smaller than some grade of G and no larger than some grade of G
Between(x, G) == (\E g \in G : DoubleLeq(g, x)) /\ (\E g \in G : DoubleLeq(x, g))

\* C30: with grades in [0,100] and weights and credits that are not negative,
\* every grade calculated lies between the smallest and the largest of the
\* grades that contribute to it (those counted with a weight above 0), and
\* so between 0 and 100.
C30_GradesWithinRange ==
    /\ (calc.fn = "calculateModuleGrade" /\ calc.out # nullGrade) =>
          LET as == calc.arg.assessments
          IN  /\ Between(calc.out, {DoubleOf(as[i].grade) :
                    i \in {j \in 1..Len(as) : Counted(as[j]) /\ as[j].weight > 0}})
              /\ DoubleLeq(calc.out, DoubleOf(100))
    /\ (calc.fn = "calculateYearGrade" /\ calc.out # nullGrade) =>
          LET ms == calc.arg.modules
              g == [i \in 1..Len(ms) |-> calculateModuleGrade(ms[i])]
          IN  /\ Between(calc.out, {g[i] :
                    i \in {j \in 1..Len(ms) : g[j] # nullGrade /\ ms[j].credits > 0}})
              /\ DoubleLeq(calc.out, DoubleOf(100))
    /\ (calc.fn = "calculateOverallGrade" /\ calc.out # nullGrade) =>
          LET ys == calc.arg.years
              g == [i \in 1..Len(ys) |-> calculateYearGrade(ys[i])]
          IN  /\ Between(calc.out, {g[i] :
                    i \in {j \in 1..Len(ys) : g[j] # nullGrade /\ ys[j].weight > 0}})
              /\ DoubleLeq(calc.out, DoubleOf(100))

====
